---- MODULE Spec2Model ----
(***************************************************************************)
(* The subscription processing engine of sailhouse/sdk-go                  *)
(* (src/sailhouse/subscriber.go): SailhouseSubscriber with its registry,   *)
(* run state, cancellation context, WaitGroup and the worker goroutines    *)
(* started by Start.                                                       *)
(*                                                                         *)
(* Goroutines that call the public methods are the Callers; the methods    *)
(* run under s.mu, so each locked section is one step.  Stop is two steps: *)
(* its locked section and the return of s.wg.Wait().  A worker takes one   *)
(* step per blocking call it makes (PullEvent, the handler, Ack, a sleep); *)
(* the `select` on s.ctx.Done() that precedes a call is taken together     *)
(* with the start of that call.                                            *)
(*                                                                         *)
(* The pure functions of the package (NewSailhouseSubscriber's defaults,   *)
(* PullEvent's mapping of a response, PushSubscriptionVerifier) are        *)
(* operators; SpecOptions, SpecPull and SpecVerify draw a call's arguments *)
(* in their initial states and record what the call returns; SpecVariants, *)
(* SpecEntry and SpecWait do the same for the variants of a signature      *)
(* header, the verification entry points and SailhouseClient.Wait.         *)
(* SpecStream is StreamEvents (src/sailhouse/client.go) with its two       *)
(* goroutines, SpecSubscribe the goroutine of SailhouseClient.Subscribe,   *)
(* and SpecReentrant the engine with Stop called on a worker's goroutine.  *)
(***************************************************************************)
EXTENDS Integers, Sequences, FiniteSets, TLC

\* ---------------------------------------------------------------- bounds
MaxSubs == 2        \* registrations the callers add
MaxProcs == 2       \* largest PerSubscriptionProcessors a caller passes
MaxRetriesIn == 1   \* largest MaxRetries a caller passes
MaxRuns == 2        \* successful Start calls
MaxWorkers == 2     \* goroutines spawned over all runs
MaxDuration == 2    \* longest PollInterval / RetryDelay a caller passes, in seconds
IntWidth == 10      \* bits of the int64 values of the verifier, scaled down
DigestLen == 4      \* bytes of a message digest, scaled down
MaxElements == 2    \* elements of a signature header
MaxMessages == 2    \* messages the service sends on a stream
MaxVariantElements == 3 \* elements of a header that is compared with its variants

\* ------------------------------------------------------ program constants
DefaultPerSubscriptionProcessors == 1
DefaultPollInterval == 1
DefaultMaxRetries == 3
DefaultRetryDelay == 1
DefaultTolerance == 300

\* ----------------------------------------------------------------- inputs
Callers == {"g1", "g2"}
ParentCtxs == {"background", "testCtx"}

\* The event the remote service holds for a topic (the tests' mock server
\* answers every pull of a topic with the one event registered for it).
EventIDs == [topic1 |-> "id1", topic2 |-> "id2"]

Registrations ==
    { [Topic |-> "topic1", Subscription |-> "sub1", Handler |-> "handler1"],
      [Topic |-> "topic2", Subscription |-> "sub2", Handler |-> "handler2"] }

\* A *SubscriberOptions argument: nil, or a struct (a zero field is unset).
NilOptions ==
    [isNil |-> TRUE, PerSubscriptionProcessors |-> 0, PollInterval |-> 0,
     ErrorHandler |-> FALSE, MaxRetries |-> 0, RetryDelay |-> 0]

\* The options the engine is constructed with: nil (the defaults, no error
\* callback), or a struct that sets the processors, the retries and a callback.
OptionInputs ==
    {NilOptions} \cup
    [isNil : {FALSE}, PerSubscriptionProcessors : 1..MaxProcs, PollInterval : {0},
     ErrorHandler : {TRUE}, MaxRetries : 0..MaxRetriesIn, RetryDelay : {0}]

\* The options of the runs whose waits are told apart by their length: a poll
\* interval that differs from the (default) retry delay.
LongPollOptions ==
    [isNil |-> FALSE, PerSubscriptionProcessors |-> 1, PollInterval |-> MaxDuration,
     ErrorHandler |-> TRUE, MaxRetries |-> MaxRetriesIn, RetryDelay |-> 0]

VARIABLES
    subscriptions,  \* s.subscriptions
    options,        \* s.options (effective)
    running,        \* s.running
    ctx,            \* s.ctx / s.cancel: 0 is nil, n is the context derived by the n-th run
    ctxParent,      \* ctxParent[n]: the context handed to the n-th successful Start
    cancelled,      \* derived contexts whose cancel func has been called
    testCancelled,  \* the caller's cancellable context "testCtx" has been cancelled
    wg,             \* s.wg counter
    mu,             \* s.mu: "unlocked" or the caller holding it
    workers,        \* the runProcessor goroutines, in spawn order
    callers,        \* where each calling goroutine is
    stopAfterCancel,\* observation: the callers whose pending Stop was called
                    \* after the context handed to Start had been cancelled
    call,           \* a call of one of the SDK's functions: its name and arguments
    result,         \* what that call returned ([pc |-> "called"] until it has)
    conn,           \* the websocket of StreamEvents: "none", "open", "failed", "closed"
    streamDone,     \* the context handed to StreamEvents is cancelled
    closed,         \* closed[ch]: the channel events, errs or messages is closed
    spc,            \* where the goroutines of StreamEvents are: main, reader, relay
    msg,            \* the message the reader, and the relay, holds
    sent,           \* messages the service has sent on the websocket
    received,       \* what the caller has received on the events and errs channels
    poller,         \* the goroutine started by SailhouseClient.Subscribe
    doneChan        \* the context handed to SailhouseClient.Subscribe is cancelled

streamVars == <<conn, streamDone, closed, spc, msg, sent, received>>

clientVars == <<poller, doneChan>>

\* The state outside the subscription engine; the engine leaves it alone.
others == <<call, result, streamVars, clientVars>>

vars == <<subscriptions, options, running, ctx, ctxParent, cancelled, testCancelled,
          wg, mu, workers, callers, stopAfterCancel, call, result,
          conn, streamDone, closed, spc, msg, sent, received, poller, doneChan>>

\* No stream has been opened.
StreamUnused ==
    /\ conn = "none"
    /\ streamDone = FALSE
    /\ closed = [ch \in {"events", "errs", "messages"} |-> FALSE]
    /\ spc = [main |-> "none", reader |-> "none", relay |-> "none"]
    /\ msg = [reader |-> "", relay |-> ""]
    /\ sent = 0
    /\ received = <<>>

\* SailhouseClient.Subscribe has not been called.
ClientUnused ==
    /\ poller = [pc |-> "none"]
    /\ doneChan = FALSE

\* ------------------------------------------------------------ construction
NewSailhouseSubscriber(o) ==
    [PerSubscriptionProcessors |->
        IF ~o.isNil /\ o.PerSubscriptionProcessors > 0
        THEN o.PerSubscriptionProcessors ELSE DefaultPerSubscriptionProcessors,
     PollInterval |->
        IF ~o.isNil /\ o.PollInterval > 0 THEN o.PollInterval ELSE DefaultPollInterval,
     ErrorHandler |-> ~o.isNil /\ o.ErrorHandler,
     MaxRetries |->
        IF ~o.isNil /\ o.MaxRetries >= 0 THEN o.MaxRetries ELSE DefaultMaxRetries,
     RetryDelay |->
        IF ~o.isNil /\ o.RetryDelay > 0 THEN o.RetryDelay ELSE DefaultRetryDelay]

Init ==
    /\ subscriptions = <<>>
    /\ options \in {NewSailhouseSubscriber(o) : o \in OptionInputs \cup {LongPollOptions}}
    /\ running = FALSE
    /\ ctx = 0
    /\ ctxParent = <<>>
    /\ cancelled = {}
    /\ testCancelled = FALSE
    /\ wg = 0
    /\ mu = "unlocked"
    /\ workers = <<>>
    /\ callers = [c \in Callers |-> "idle"]
    /\ stopAfterCancel = {}
    /\ call = [fn |-> "none"]
    /\ result = [pc |-> "none"]
    /\ StreamUnused
    /\ ClientUnused

\* ---------------------------------------------------------------- contexts
\* ctx.Done() of the context derived by run n is closed.
Done(n) ==
    \/ n \in cancelled
    \/ ctxParent[n] = "testCtx" /\ testCancelled

\* The values a worker of run r can read from the field s.ctx: Start writes the
\* field under s.mu and the workers read it without the lock, so a worker that
\* outlives its run reads any of the contexts stored since it was spawned.
ReadCtx(r) == r..ctx

NoEvent == [ID |-> "", topic |-> "", subscription |-> ""]

NewWorker(sub, i, r) ==
    [run |-> r, sub |-> sub, processorID |-> i, pc |-> "select",
     event |-> NoEvent, attempt |-> 0, trace |-> <<>>,
     pulled |-> "", failure |-> "", timer |-> 0, watch |-> 0, live |-> FALSE,
     slept |-> 0, interrupted |-> FALSE]

Active(w) == w.pc # "exited"

ActiveWorkers == {i \in DOMAIN workers : Active(workers[i])}

\* ----------------------------------------------------------------- callers
\* A goroutine can enter a method when it is not blocked in Stop and s.mu is free.
Idle(c) == callers[c] = "idle" /\ mu = "unlocked"

\* What Subscribe does in the current state: "panic", or "" (it returns).
SubscribeErr == IF running THEN "panic" ELSE ""

\* Subscribe whose panic leaves s.mu locked (an Unlock that is not deferred).
Subscribe_PanicHoldsLock(c, reg) ==
    /\ Idle(c)
    /\ UNCHANGED others
    /\ IF SubscribeErr = "panic"
       THEN /\ mu' = c
            /\ UNCHANGED subscriptions
       ELSE /\ Len(subscriptions) < MaxSubs
            /\ subscriptions' = Append(subscriptions, reg)
            /\ mu' = "unlocked"
    /\ UNCHANGED <<options, running, ctx, ctxParent, cancelled, testCancelled, wg,
                   workers, callers, stopAfterCancel>>

Subscribe(c, reg) ==
    /\ Idle(c)
    /\ UNCHANGED others
    /\ IF SubscribeErr = "panic"
       THEN UNCHANGED subscriptions
       ELSE /\ Len(subscriptions) < MaxSubs
            /\ subscriptions' = Append(subscriptions, reg)
    /\ mu' = "unlocked"
    /\ UNCHANGED <<options, running, ctx, ctxParent, cancelled, testCancelled, wg,
                   workers, callers, stopAfterCancel>>

\* Start without the check for an empty registration list.
StartErr_NoEmptyCheck ==
    IF running THEN "subscriber is already running" ELSE ""

\* The error Start returns in the current state ("" is nil).
StartErr ==
    IF running THEN "subscriber is already running"
    ELSE IF Len(subscriptions) = 0 THEN "no subscriptions registered"
    ELSE ""

\* The goroutines Start spawns: PerSubscriptionProcessors per subscription.
Spawned(r) ==
    LET P == options.PerSubscriptionProcessors
        n == Len(subscriptions) * P
    IN  [k \in 1..n |-> NewWorker(subscriptions[((k - 1) \div P) + 1], (k - 1) % P, r)]

\* Start without the check of s.running.
Start_IgnoresRunning(c, parent) ==
    /\ Idle(c)
    /\ UNCHANGED others
    /\ IF Len(subscriptions) = 0
       THEN UNCHANGED <<running, ctx, ctxParent, wg, workers>>
       ELSE /\ ctx < MaxRuns
            /\ Len(workers) + Len(Spawned(ctx + 1)) <= MaxWorkers
            /\ ctx' = ctx + 1
            /\ ctxParent' = Append(ctxParent, parent)
            /\ running' = TRUE
            /\ workers' = workers \o Spawned(ctx + 1)
            /\ wg' = wg + Len(Spawned(ctx + 1))
    /\ mu' = "unlocked"
    /\ UNCHANGED <<subscriptions, options, cancelled, testCancelled, callers, stopAfterCancel>>

Start(c, parent) ==
    /\ Idle(c)
    /\ UNCHANGED others
    /\ IF StartErr # ""
       THEN UNCHANGED <<running, ctx, ctxParent, wg, workers>>
       ELSE /\ ctx < MaxRuns
            /\ Len(workers) + Len(Spawned(ctx + 1)) <= MaxWorkers
            /\ ctx' = ctx + 1
            /\ ctxParent' = Append(ctxParent, parent)
            /\ running' = TRUE
            /\ workers' = workers \o Spawned(ctx + 1)
            /\ wg' = wg + Len(Spawned(ctx + 1))
    /\ mu' = "unlocked"
    /\ UNCHANGED <<subscriptions, options, cancelled, testCancelled, callers, stopAfterCancel>>

\* Stop whose early return leaves s.mu locked (no Unlock before the return).
StopLocked_EarlyReturnHoldsLock(c) ==
    /\ Idle(c)
    /\ UNCHANGED others
    /\ IF ~running
       THEN /\ mu' = c
            /\ UNCHANGED <<running, cancelled, callers, stopAfterCancel>>
       ELSE /\ running' = FALSE
            /\ cancelled' = IF ctx # 0 THEN cancelled \cup {ctx} ELSE cancelled
            /\ callers' = [callers EXCEPT ![c] = "Wait"]
            /\ stopAfterCancel' =
                  IF ctx # 0 /\ ctxParent[ctx] = "testCtx" /\ testCancelled
                  THEN stopAfterCancel \cup {c} ELSE stopAfterCancel
            /\ mu' = "unlocked"
    /\ UNCHANGED <<subscriptions, options, ctx, ctxParent, testCancelled, wg, workers>>

\* Stop without the early return: it cancels and waits whatever s.running is.
StopLocked_NoEarlyReturn(c) ==
    /\ Idle(c)
    /\ UNCHANGED others
    /\ running' = FALSE
    /\ cancelled' = IF ctx # 0 THEN cancelled \cup {ctx} ELSE cancelled
    /\ callers' = [callers EXCEPT ![c] = "Wait"]
    /\ stopAfterCancel' =
          IF ctx # 0 /\ ctxParent[ctx] = "testCtx" /\ testCancelled
          THEN stopAfterCancel \cup {c} ELSE stopAfterCancel
    /\ mu' = "unlocked"
    /\ UNCHANGED <<subscriptions, options, ctx, ctxParent, testCancelled, wg, workers>>

\* Stop up to s.mu.Unlock(): the early return, or the cancel before the wait.
StopLocked(c) ==
    /\ Idle(c)
    /\ UNCHANGED others
    /\ IF ~running
       THEN UNCHANGED <<running, cancelled, callers, stopAfterCancel>>
       ELSE /\ running' = FALSE
            /\ cancelled' = IF ctx # 0 THEN cancelled \cup {ctx} ELSE cancelled
            /\ callers' = [callers EXCEPT ![c] = "Wait"]
            /\ stopAfterCancel' =
                  IF ctx # 0 /\ ctxParent[ctx] = "testCtx" /\ testCancelled
                  THEN stopAfterCancel \cup {c} ELSE stopAfterCancel
    /\ mu' = "unlocked"
    /\ UNCHANGED <<subscriptions, options, ctx, ctxParent, testCancelled, wg, workers>>

\* s.wg.Wait() returns, and Stop with it.
StopWait(c) ==
    /\ callers[c] = "Wait"
    /\ UNCHANGED others
    /\ wg = 0
    /\ callers' = [callers EXCEPT ![c] = "idle"]
    /\ stopAfterCancel' = stopAfterCancel \ {c}
    /\ UNCHANGED <<subscriptions, options, running, ctx, ctxParent, cancelled,
                   testCancelled, wg, mu, workers>>

\* What IsRunning returns in the current state.
IsRunningResult == running

IsRunning(c) ==
    /\ Idle(c)
    /\ UNCHANGED others
    /\ mu' = "unlocked"
    /\ UNCHANGED <<subscriptions, options, running, ctx, ctxParent, cancelled,
                   testCancelled, wg, workers, callers, stopAfterCancel>>

\* What GetSubscriptions returns in the current state: a copy of the list.
GetSubscriptionsResult == [k \in 1..Len(subscriptions) |-> subscriptions[k]]

GetSubscriptions(c) ==
    /\ Idle(c)
    /\ UNCHANGED others
    /\ mu' = "unlocked"
    /\ UNCHANGED <<subscriptions, options, running, ctx, ctxParent, cancelled,
                   testCancelled, wg, workers, callers, stopAfterCancel>>

\* The owner of the context handed to Start cancels it.
CancelTestCtx ==
    /\ ~testCancelled
    /\ UNCHANGED others
    /\ testCancelled' = TRUE
    /\ UNCHANGED <<subscriptions, options, running, ctx, ctxParent, cancelled, wg, mu,
                   workers, callers, stopAfterCancel>>

\* ----------------------------------------------------------------- workers
\* A worker's trace lists, for the event it pulled last, the calls it made and
\* what they returned: "Handler", "Handler:nil" | "Handler:error", "Ack",
\* "Ack:nil" | "Ack:error", and "ErrorHandler:<what>" for each call of the
\* error callback.

\* handleError: the callback is invoked only when one is configured.
handleError(trace, err) ==
    IF options.ErrorHandler THEN Append(trace, err) ELSE trace

\* s.sleep(duration) begins: the timer is created and the select waits on it
\* and on the Done() of the context c read from s.ctx; `live` tells whether
\* that context was still live when the wait began.
StartSleep(w, pc, duration, c) ==
    [w EXCEPT !.pc = pc, !.timer = duration, !.watch = c, !.live = ~Done(c)]

\* s.sleep returns: `slept` is the duration the call was made with, and
\* `interrupted` tells whether the watched context was cancelled meanwhile.
EndSleep(w) ==
    [w EXCEPT !.timer = 0, !.watch = 0, !.live = FALSE, !.slept = w.timer,
              !.interrupted = w.live /\ Done(w.watch)]

\* Why a wait returns: its timer has expired, or the context it watches is done.
Wakes == {"timer", "ctx"}

\* Why a request to the service fails: the service or the transport answers
\* with an error, or the context the request was made with is done.
FailureCauses == {"service", "ctx"}

\* A request made with the context w.watch can fail for the given cause.
CanFail(w, cause) == cause = "ctx" => Done(w.watch)

\* The head of the retry loop for attempt a, having read the context c from
\* s.ctx: the select on its Done(), then the call of the handler.
Attempt(w, a, c) ==
    IF Done(c)
    THEN [w EXCEPT !.pc = "select", !.attempt = a]
    ELSE [w EXCEPT !.pc = "Handler", !.attempt = a, !.trace = Append(@, "Handler"),
                   !.slept = 0, !.interrupted = FALSE]

\* PullEvent that leaves the decoded event unbound to the topic and subscription.
PullEvent_Unbound(topic, subscription, id) ==
    [ID |-> id, topic |-> "", subscription |-> ""]

\* What PullEvent decodes and binds on status 200.
PullEvent(topic, subscription, id) ==
    [ID |-> id, topic |-> topic, subscription |-> subscription]

WorkerStep(i, w) ==
    /\ workers' = [workers EXCEPT ![i] = w]
    /\ UNCHANGED others
    /\ UNCHANGED <<subscriptions, options, running, ctx, ctxParent, cancelled,
                   testCancelled, mu, callers, stopAfterCancel>>

\* RunProcessor in which the last worker to leave clears s.running.
RunProcessor_LastExitClearsRunning(i) ==
    /\ workers[i].pc = "select"
    /\ \E c \in ReadCtx(workers[i].run) :
        IF Done(c)
        THEN /\ workers' = [workers EXCEPT ![i] = [@ EXCEPT !.pc = "exited", !.event = NoEvent,
                                                            !.attempt = 0, !.trace = <<>>,
                                                            !.pulled = "", !.failure = "",
                                                            !.slept = 0,
                                                            !.interrupted = FALSE]]
             /\ wg' = wg - 1
             /\ running' = (running /\ ActiveWorkers # {i})
             /\ UNCHANGED <<subscriptions, options, ctx, ctxParent, cancelled,
                            testCancelled, mu, callers, stopAfterCancel>>
             /\ UNCHANGED others
        ELSE /\ WorkerStep(i, [workers[i] EXCEPT !.pc = "PullEvent", !.event = NoEvent,
                                                 !.attempt = 0, !.trace = <<>>,
                                                 !.pulled = "", !.failure = "",
                                                 !.watch = c, !.slept = 0,
                                                 !.interrupted = FALSE])
             /\ UNCHANGED wg

\* runProcessor's select: leave on a cancelled context (wg.Done), else
\* processNextEvent and its PullEvent call.
RunProcessor(i) ==
    /\ workers[i].pc = "select"
    /\ \E c \in ReadCtx(workers[i].run) :
        IF Done(c)
        THEN /\ WorkerStep(i, [workers[i] EXCEPT !.pc = "exited", !.event = NoEvent,
                                                 !.attempt = 0, !.trace = <<>>,
                                                 !.pulled = "", !.failure = "",
                                                 !.slept = 0, !.interrupted = FALSE])
             /\ wg' = wg - 1
        ELSE /\ WorkerStep(i, [workers[i] EXCEPT !.pc = "PullEvent", !.event = NoEvent,
                                                 !.attempt = 0, !.trace = <<>>,
                                                 !.pulled = "", !.failure = "",
                                                 !.watch = c, !.slept = 0,
                                                 !.interrupted = FALSE])
             /\ UNCHANGED wg

\* PullFails that goes straight back to runProcessor's loop, without the wait.
PullFails_NoWait(i) ==
    LET w == workers[i]
    IN  /\ w.pc = "PullEvent"
        /\ \E cause \in FailureCauses :
              /\ CanFail(w, cause)
              /\ WorkerStep(i, [w EXCEPT !.pc = "select", !.pulled = "error",
                                         !.failure = cause, !.watch = 0,
                                         !.trace = handleError(@, "ErrorHandler:pull")])
        /\ UNCHANGED wg

\* PullEvent returns an error: report it and sleep the poll interval.
PullFails(i) ==
    LET w == workers[i]
        reported == [w EXCEPT !.pulled = "error",
                              !.trace = handleError(@, "ErrorHandler:pull")]
    IN  /\ w.pc = "PullEvent"
        /\ \E cause \in FailureCauses, c \in ReadCtx(w.run) :
              /\ CanFail(w, cause)
              /\ WorkerStep(i, StartSleep([reported EXCEPT !.failure = cause], "sleep",
                                          options.PollInterval, c))
        /\ UNCHANGED wg

\* PullEmpty that waits the retry delay instead of the poll interval.
PullEmpty_WaitsRetryDelay(i) ==
    LET w == workers[i]
    IN  /\ w.pc = "PullEvent"
        /\ \E c \in ReadCtx(w.run) :
              WorkerStep(i, StartSleep([w EXCEPT !.pulled = "nil"], "sleep",
                                       options.RetryDelay, c))
        /\ UNCHANGED wg

\* PullEvent returns no event (204): sleep the poll interval.
PullEmpty(i) ==
    LET w == workers[i]
    IN  /\ w.pc = "PullEvent"
        /\ \E c \in ReadCtx(w.run) :
              WorkerStep(i, StartSleep([w EXCEPT !.pulled = "nil"], "sleep",
                                       options.PollInterval, c))
        /\ UNCHANGED wg

\* PullEvent returns an event: processEventWithRetries, attempt 0.
PullReturns(i) ==
    LET w == workers[i]
        e == PullEvent(w.sub.Topic, w.sub.Subscription, EventIDs[w.sub.Topic])
    IN  /\ w.pc = "PullEvent"
        /\ \E c \in ReadCtx(w.run) :
              WorkerStep(i, Attempt([w EXCEPT !.event = e, !.pulled = "event",
                                              !.watch = 0], 0, c))
        /\ UNCHANGED wg

\* s.sleep(PollInterval) returns, on the timer or on the cancelled context.
Sleep(i, by) ==
    LET w == workers[i]
    IN  /\ w.pc = "sleep"
        /\ by = "ctx" => Done(w.watch)
        /\ WorkerStep(i, [EndSleep(w) EXCEPT !.pc = "select"])
        /\ UNCHANGED wg

\* The handler returns nil: acknowledge.
HandlerSucceeds(i) ==
    /\ workers[i].pc = "Handler"
    /\ \E c \in ReadCtx(workers[i].run) :
          WorkerStep(i, [workers[i] EXCEPT !.pc = "Ack", !.watch = c,
                                          !.trace = @ \o <<"Handler:nil", "Ack">>])
    /\ UNCHANGED wg

\* HandlerFails with the last attempt taken one early (attempt >= MaxRetries-1).
HandlerFails_OneAttemptShort(i) ==
    LET w == workers[i]
        failed == Append(w.trace, "Handler:error")
    IN  /\ w.pc = "Handler"
        /\ IF w.attempt >= options.MaxRetries - 1
           THEN \E c \in ReadCtx(w.run) :
                  WorkerStep(i, [w EXCEPT !.pc = "Ack", !.watch = c,
                     !.trace = Append(handleError(failed, "ErrorHandler:attempts"), "Ack")])
           ELSE \E c \in ReadCtx(w.run) :
                  WorkerStep(i, StartSleep([w EXCEPT !.trace = failed], "sleepRetry",
                                           options.RetryDelay, c))
        /\ UNCHANGED wg

\* HandlerFails that reports every failed attempt, not only the last.
HandlerFails_ReportsEveryFailure(i) ==
    LET w == workers[i]
        failed == handleError(Append(w.trace, "Handler:error"), "ErrorHandler:attempts")
    IN  /\ w.pc = "Handler"
        /\ IF w.attempt = options.MaxRetries
           THEN \E c \in ReadCtx(w.run) :
                  WorkerStep(i, [w EXCEPT !.pc = "Ack", !.watch = c,
                                          !.trace = Append(failed, "Ack")])
           ELSE \E c \in ReadCtx(w.run) :
                  WorkerStep(i, StartSleep([w EXCEPT !.trace = failed], "sleepRetry",
                                           options.RetryDelay, c))
        /\ UNCHANGED wg

\* HandlerFails that acknowledges the event before it reports the failure.
HandlerFails_AckBeforeReport(i) ==
    LET w == workers[i]
        failed == Append(w.trace, "Handler:error")
    IN  /\ w.pc = "Handler"
        /\ IF w.attempt = options.MaxRetries
           THEN \E c \in ReadCtx(w.run) :
                  WorkerStep(i, [w EXCEPT !.pc = "Ack", !.watch = c,
                     !.trace = handleError(Append(failed, "Ack"), "ErrorHandler:attempts")])
           ELSE \E c \in ReadCtx(w.run) :
                  WorkerStep(i, StartSleep([w EXCEPT !.trace = failed], "sleepRetry",
                                           options.RetryDelay, c))
        /\ UNCHANGED wg

\* The handler returns an error: on the last attempt report and acknowledge,
\* otherwise sleep the retry delay.
HandlerFails(i) ==
    LET w == workers[i]
        failed == Append(w.trace, "Handler:error")
    IN  /\ w.pc = "Handler"
        /\ IF w.attempt = options.MaxRetries
           THEN \E c \in ReadCtx(w.run) :
                  WorkerStep(i, [w EXCEPT !.pc = "Ack", !.watch = c,
                     !.trace = Append(handleError(failed, "ErrorHandler:attempts"), "Ack")])
           ELSE \E c \in ReadCtx(w.run) :
                  WorkerStep(i, StartSleep([w EXCEPT !.trace = failed], "sleepRetry",
                                           options.RetryDelay, c))
        /\ UNCHANGED wg

\* s.sleep(RetryDelay) returns; attempt++ and the next turn of the retry loop.
RetrySleep(i, by) ==
    LET w == workers[i]
    IN  /\ w.pc = "sleepRetry"
        /\ by = "ctx" => Done(w.watch)
        /\ \E c \in ReadCtx(w.run) : WorkerStep(i, Attempt(EndSleep(w), w.attempt + 1, c))
        /\ UNCHANGED wg

\* AckReturns that acknowledges once more when the first acknowledge failed.
AckReturns_RetriesFailedAck(i, ok) ==
    /\ workers[i].pc = "Ack"
    /\ WorkerStep(i,
          IF ok THEN [workers[i] EXCEPT !.pc = "select", !.watch = 0,
                                        !.trace = Append(@, "Ack:nil")]
          ELSE IF Cardinality({k \in DOMAIN workers[i].trace : workers[i].trace[k] = "Ack"}) < 2
          THEN [workers[i] EXCEPT !.trace = @ \o <<"Ack:error", "Ack">>]
          ELSE [workers[i] EXCEPT !.pc = "select", !.watch = 0, !.failure = "service",
                   !.trace = handleError(Append(@, "Ack:error"), "ErrorHandler:ack")])
    /\ UNCHANGED wg

\* AckReturns that keeps a failed acknowledge from the error callback.
AckReturns_FailureUnreported(i, ok) ==
    /\ workers[i].pc = "Ack"
    /\ WorkerStep(i, [workers[i] EXCEPT !.pc = "select", !.watch = 0,
            !.failure = IF ok THEN "" ELSE "service",
            !.trace = IF ok THEN Append(@, "Ack:nil") ELSE Append(@, "Ack:error")])
    /\ UNCHANGED wg

\* event.Ack returns: an error is reported; either way back to runProcessor.
AckReturns(i, ok) ==
    LET w == workers[i]
    IN  /\ w.pc = "Ack"
        /\ IF ok
           THEN WorkerStep(i, [w EXCEPT !.pc = "select", !.watch = 0,
                                       !.trace = Append(@, "Ack:nil")])
           ELSE \E cause \in FailureCauses :
                  /\ CanFail(w, cause)
                  /\ WorkerStep(i, [w EXCEPT !.pc = "select", !.watch = 0,
                        !.failure = cause,
                        !.trace = handleError(Append(@, "Ack:error"), "ErrorHandler:ack")])
        /\ UNCHANGED wg

Next ==
    \/ \E c \in Callers, reg \in Registrations : Subscribe(c, reg)
    \/ \E c \in Callers, p \in ParentCtxs : Start(c, p)
    \/ \E c \in Callers : StopLocked(c)
    \/ \E c \in Callers : StopWait(c)
    \/ \E c \in Callers : IsRunning(c)
    \/ \E c \in Callers : GetSubscriptions(c)
    \/ CancelTestCtx
    \/ \E i \in DOMAIN workers : RunProcessor(i)
    \/ \E i \in DOMAIN workers : PullFails(i)
    \/ \E i \in DOMAIN workers : PullEmpty(i)
    \/ \E i \in DOMAIN workers : PullReturns(i)
    \/ \E i \in DOMAIN workers, by \in Wakes : Sleep(i, by)
    \/ \E i \in DOMAIN workers : HandlerSucceeds(i)
    \/ \E i \in DOMAIN workers : HandlerFails(i)
    \/ \E i \in DOMAIN workers, by \in Wakes : RetrySleep(i, by)
    \/ \E i \in DOMAIN workers, ok \in BOOLEAN : AckReturns(i, ok)

Spec == Init /\ [][Next]_vars

\* -------------------------------------------------- Stop on a worker goroutine
\* User code that runs on worker i calls s.Stop(): the handler while it runs,
\* or the error callback invoked with a pull error.  Stop returns at once when
\* the engine is not running; otherwise it clears s.running, cancels and blocks
\* the worker in s.wg.Wait() (pc "Wait"), from which it resumes where the user
\* code was called once the counter is zero.
StopOnWorker(i) ==
    LET w == workers[i]
        reported == [w EXCEPT !.pulled = "error", !.watch = 0,
                              !.trace = handleError(@, "ErrorHandler:pull")]
    IN  /\ UNCHANGED <<subscriptions, options, ctx, ctxParent, testCancelled, mu,
                       callers, stopAfterCancel, others>>
        /\ IF w.pc = "Wait"
           THEN /\ wg = 0
                /\ \E c \in ReadCtx(w.run) :
                      workers' = [workers EXCEPT ![i] =
                          IF w.pulled = "error"
                          THEN StartSleep(w, "sleep", options.PollInterval, c)
                          ELSE [w EXCEPT !.pc = "Handler"]]
                /\ UNCHANGED <<running, cancelled, wg>>
           ELSE /\ mu = "unlocked"
                /\ running
                /\ running' = FALSE
                /\ cancelled' = IF ctx # 0 THEN cancelled \cup {ctx} ELSE cancelled
                /\ UNCHANGED wg
                /\ \/ /\ w.pc = "Handler"
                      /\ workers' = [workers EXCEPT ![i] = [w EXCEPT !.pc = "Wait"]]
                   \/ /\ w.pc = "PullEvent"
                      /\ options.ErrorHandler
                      /\ \E cause \in FailureCauses :
                            /\ CanFail(w, cause)
                            /\ workers' = [workers EXCEPT ![i] =
                                  [reported EXCEPT !.pc = "Wait", !.failure = cause]]

NextReentrant ==
    \/ Next
    \/ \E i \in DOMAIN workers : StopOnWorker(i)

SpecReentrant == Init /\ [][NextReentrant]_vars

\* ---------------------------------------------------------------- fairness
\* The scheduler runs every runnable goroutine, and the calls a worker blocks
\* in (PullEvent, the handler, Ack, a sleep) return; wg.Wait() returns once
\* the counter is zero.  The callers are free to make no further call.
WorkerNext(i) ==
    /\ i \in DOMAIN workers
    /\ \/ RunProcessor(i)
       \/ PullFails(i)
       \/ PullEmpty(i)
       \/ PullReturns(i)
       \/ \E by \in Wakes : Sleep(i, by)
       \/ HandlerSucceeds(i)
       \/ HandlerFails(i)
       \/ \E by \in Wakes : RetrySleep(i, by)
       \/ \E ok \in BOOLEAN : AckReturns(i, ok)

SpecFair ==
    /\ Spec
    /\ \A i \in 1..MaxWorkers : WF_vars(WorkerNext(i))
    /\ \A c \in Callers : WF_vars(StopWait(c))

\* The same scheduling with timers that may take arbitrarily long: a wait is
\* only sure to return once the context it watches is done.
WorkerNextUntimed(i) ==
    /\ i \in DOMAIN workers
    /\ \/ RunProcessor(i)
       \/ PullFails(i)
       \/ PullEmpty(i)
       \/ PullReturns(i)
       \/ Sleep(i, "ctx")
       \/ HandlerSucceeds(i)
       \/ HandlerFails(i)
       \/ RetrySleep(i, "ctx")
       \/ \E ok \in BOOLEAN : AckReturns(i, ok)

SpecFairUntimed ==
    /\ Spec
    /\ \A i \in 1..MaxWorkers : WF_vars(WorkerNextUntimed(i))
    /\ \A c \in Callers : WF_vars(StopWait(c))

\* The scheduling of the engine whose user code may call Stop.
SpecReentrantFair ==
    /\ SpecReentrant
    /\ \A i \in 1..MaxWorkers : WF_vars(WorkerNext(i))
    /\ \A i \in 1..MaxWorkers : WF_vars(i \in DOMAIN workers /\ StopOnWorker(i))
    /\ \A c \in Callers : WF_vars(StopWait(c))

\* ------------------------------------------------------ calls of functions
\* The functions of the SDK that keep no state are applied to an argument list
\* drawn in the initial state; the engine is not used meanwhile.
engineVars == <<subscriptions, options, running, ctx, ctxParent, cancelled,
                testCancelled, wg, mu, workers, callers, stopAfterCancel>>

EngineUnused ==
    /\ subscriptions = <<>>
    /\ options = NewSailhouseSubscriber(NilOptions)
    /\ running = FALSE
    /\ ctx = 0
    /\ ctxParent = <<>>
    /\ cancelled = {}
    /\ testCancelled = FALSE
    /\ wg = 0
    /\ mu = "unlocked"
    /\ workers = <<>>
    /\ callers = [c \in Callers |-> "idle"]
    /\ stopAfterCancel = {}

\* The call made in the initial state returns r.
Returns(r) ==
    /\ result.pc = "called"
    /\ result' = r
    /\ UNCHANGED <<call, engineVars, streamVars, clientVars>>

\* ------------------------------------------------- NewSailhouseSubscriber
\* Every *SubscriberOptions a caller can pass: nil, or a struct whose fields are
\* unset (zero), negative, or set.
OptionArgs ==
    {NilOptions} \cup
    [isNil : {FALSE}, PerSubscriptionProcessors : -1..MaxProcs,
     PollInterval : 0..MaxDuration, ErrorHandler : BOOLEAN,
     MaxRetries : -1..MaxRetriesIn, RetryDelay : 0..MaxDuration]

InitOptions ==
    /\ EngineUnused
    /\ StreamUnused
    /\ ClientUnused
    /\ call \in {[fn |-> "NewSailhouseSubscriber", options |-> o] : o \in OptionArgs}
    /\ result = [pc |-> "called"]

ConstructSubscriber ==
    Returns([pc |-> "returned", options |-> NewSailhouseSubscriber(call.options)])

SpecOptions == InitOptions /\ [][ConstructSubscriber]_vars

\* ------------------------------------------------------------- PullEvent
\* What the service answers to the pull request: the transport fails, or a
\* response with a status code and a body.  A body is a JSON document that
\* decodes into an Event with the given id, or one that does not decode.
Bodies ==
    [decodes : {TRUE}, id : {"id1", "id2"}] \cup [decodes : {FALSE}, id : {""}]

Responses ==
    {[transport |-> "error", StatusCode |-> 0, Body |-> [decodes |-> FALSE, id |-> ""]]}
    \cup [transport : {"ok"}, StatusCode : {200, 201, 204, 404, 500}, Body : Bodies]

\* Path segments with which http.NewRequestWithContext fails to parse the URL.
InvalidPathSegments == {"%zz"}

PathSegments == {"topic1", "sub1"} \cup InvalidPathSegments

NoError == [kind |-> "nil", code |-> 0]

\* PullEvent that returns the decoded event as it is, bound to nothing.
PullEventResult_UnboundEvent(topic, subscription, res) ==
    IF topic \in InvalidPathSegments \/ subscription \in InvalidPathSegments
    THEN [event |-> NoEvent, isNil |-> TRUE, err |-> [kind |-> "request", code |-> 0]]
    ELSE IF res.transport = "error"
    THEN [event |-> NoEvent, isNil |-> TRUE, err |-> [kind |-> "transport", code |-> 0]]
    ELSE IF res.StatusCode = 204
    THEN [event |-> NoEvent, isNil |-> TRUE, err |-> NoError]
    ELSE IF res.StatusCode # 200
    THEN [event |-> NoEvent, isNil |-> TRUE,
          err |-> [kind |-> "failed to get events", code |-> res.StatusCode]]
    ELSE IF ~res.Body.decodes
    THEN [event |-> NoEvent, isNil |-> TRUE, err |-> [kind |-> "decode", code |-> 0]]
    ELSE [event |-> PullEvent("", "", res.Body.id), isNil |-> FALSE, err |-> NoError]

\* What PullEvent returns: (*Event, error).
PullEventResult(topic, subscription, res) ==
    IF topic \in InvalidPathSegments \/ subscription \in InvalidPathSegments
    THEN [event |-> NoEvent, isNil |-> TRUE, err |-> [kind |-> "request", code |-> 0]]
    ELSE IF res.transport = "error"
    THEN [event |-> NoEvent, isNil |-> TRUE, err |-> [kind |-> "transport", code |-> 0]]
    ELSE IF res.StatusCode = 204
    THEN [event |-> NoEvent, isNil |-> TRUE, err |-> NoError]
    ELSE IF res.StatusCode # 200
    THEN [event |-> NoEvent, isNil |-> TRUE,
          err |-> [kind |-> "failed to get events", code |-> res.StatusCode]]
    ELSE IF ~res.Body.decodes
    THEN [event |-> NoEvent, isNil |-> TRUE, err |-> [kind |-> "decode", code |-> 0]]
    ELSE [event |-> PullEvent(topic, subscription, res.Body.id), isNil |-> FALSE,
          err |-> NoError]

InitPull ==
    /\ EngineUnused
    /\ StreamUnused
    /\ ClientUnused
    /\ call \in [fn : {"PullEvent"}, topic : PathSegments, subscription : PathSegments,
                  response : Responses]
    /\ result = [pc |-> "called"]

PullEventReturns ==
    Returns([pc |-> "returned",
             ret |-> PullEventResult(call.topic, call.subscription, call.response)])

SpecPull == InitPull /\ [][PullEventReturns]_vars

\* ---------------------------------------------------------------- strings
\* A string is the sequence of its characters.
Digits == <<"0", "1", "2", "3", "4", "5", "6", "7", "8", "9">>

HexDigits == Digits \o <<"a", "b", "c", "d", "e", "f">>

UpperHexDigits == Digits \o <<"A", "B", "C", "D", "E", "F">>

Whitespace == {" ", "\t"}

Range(t) == {t[k] : k \in DOMAIN t}

\* The position of the first x in t, 0 if there is none.
IndexOf(t, x) ==
    IF x \in Range(t) THEN CHOOSE k \in DOMAIN t : t[k] = x /\ \A j \in 1..(k - 1) : t[j] # x
    ELSE 0

RECURSIVE Split(_, _)
\* strings.Split(t, sep) for a one-character sep.
Split(t, sep) ==
    LET k == IndexOf(t, sep)
    IN  IF k = 0 THEN <<t>>
        ELSE <<SubSeq(t, 1, k - 1)>> \o Split(SubSeq(t, k + 1, Len(t)), sep)

\* strings.SplitN(t, sep, 2).
SplitN2(t, sep) ==
    LET k == IndexOf(t, sep)
    IN  IF k = 0 THEN <<t>> ELSE <<SubSeq(t, 1, k - 1), SubSeq(t, k + 1, Len(t))>>

RECURSIVE TrimLeft(_)
TrimLeft(t) == IF t # <<>> /\ Head(t) \in Whitespace THEN TrimLeft(Tail(t)) ELSE t

RECURSIVE TrimRight(_)
TrimRight(t) ==
    IF t # <<>> /\ t[Len(t)] \in Whitespace THEN TrimRight(SubSeq(t, 1, Len(t) - 1)) ELSE t

\* strings.TrimSpace.
TrimSpace(t) == TrimRight(TrimLeft(t))

RECURSIVE Join(_, _)
\* strings.Join(elements, sep).
Join(elements, sep) ==
    IF elements = <<>> THEN <<>>
    ELSE IF Len(elements) = 1 THEN elements[1]
    ELSE elements[1] \o <<sep>> \o Join(Tail(elements), sep)

\* ---------------------------------------------------------------- integers
\* int64, scaled to IntWidth bits: two's complement, arithmetic wraps around.
MinInt == -(2 ^ (IntWidth - 1))

MaxInt == 2 ^ (IntWidth - 1) - 1

Wrap(x) == ((x - MinInt) % (2 ^ IntWidth)) + MinInt

RECURSIVE DigitsValue(_)
\* The number a non-empty string of decimal digits denotes.
DigitsValue(t) ==
    IF t = <<>> THEN 0
    ELSE DigitsValue(SubSeq(t, 1, Len(t) - 1)) * 10 + (IndexOf(Digits, t[Len(t)]) - 1)

\* strconv.ParseInt(t, 10, 64): an optional sign, then decimal digits only; a
\* value out of the integer range is an error too.
ParseInt(t) ==
    LET signed == t # <<>> /\ Head(t) \in {"+", "-"}
        ds == IF signed THEN Tail(t) ELSE t
        n == IF signed /\ Head(t) = "-" THEN -DigitsValue(ds) ELSE DigitsValue(ds)
    IN  IF ds = <<>> \/ \E k \in DOMAIN ds : ds[k] \notin Range(Digits)
        THEN [ok |-> FALSE, n |-> 0]
        ELSE IF n < MinInt \/ n > MaxInt THEN [ok |-> FALSE, n |-> 0]
        ELSE [ok |-> TRUE, n |-> n]

RECURSIVE NatToString(_)
NatToString(n) ==
    IF n < 10 THEN <<Digits[n + 1]>> ELSE NatToString(n \div 10) \o <<Digits[(n % 10) + 1]>>

\* fmt.Sprintf("%d", n).
Itoa(n) == IF n < 0 THEN <<"-">> \o NatToString(-n) ELSE NatToString(n)

\* ------------------------------------------------------------------ digests
\* The characters of the payloads that are signed.
PayloadAlphabet == Digits \o <<"-", ".", "a", "b">>

Secrets == <<"whsec_1", "whsec_2">>

RECURSIVE StringCode(_)
\* A number for each string over PayloadAlphabet, different strings getting
\* different numbers.
StringCode(t) ==
    IF t = <<>> THEN 0
    ELSE StringCode(SubSeq(t, 1, Len(t) - 1)) * (Len(PayloadAlphabet) + 1)
            + IndexOf(PayloadAlphabet, t[Len(t)])

RECURSIVE ToBytes(_, _)
ToBytes(n, len) == IF len = 0 THEN <<>> ELSE ToBytes(n \div 256, len - 1) \o <<n % 256>>

\* hmac.New(sha256.New, secret) over the payload: DigestLen bytes, taken to be
\* free of collisions (different keys or payloads give different digests).
HMAC(secret, payload) ==
    ToBytes(StringCode(payload) * (Len(Secrets) + 1) + IndexOf(Secrets, secret), DigestLen)

RECURSIVE EncodeToString(_)
\* hex.EncodeToString: two lower-case digits per byte.
EncodeToString(bytes) ==
    IF bytes = <<>> THEN <<>>
    ELSE <<HexDigits[(Head(bytes) \div 16) + 1], HexDigits[(Head(bytes) % 16) + 1]>>
            \o EncodeToString(Tail(bytes))

HexValue(ch) ==
    IF ch \in Range(HexDigits) THEN IndexOf(HexDigits, ch) - 1 ELSE IndexOf(UpperHexDigits, ch) - 1

RECURSIVE DecodeBytes(_)
DecodeBytes(t) ==
    IF t = <<>> THEN <<>>
    ELSE <<HexValue(t[1]) * 16 + HexValue(t[2])>> \o DecodeBytes(SubSeq(t, 3, Len(t)))

\* hex.DecodeString: an odd length or a character that is no hex digit (of
\* either case) is an error.
DecodeString(t) ==
    IF Len(t) % 2 = 1 \/ \E k \in DOMAIN t : t[k] \notin Range(HexDigits) \cup Range(UpperHexDigits)
    THEN [ok |-> FALSE, bytes |-> <<>>]
    ELSE [ok |-> TRUE, bytes |-> DecodeBytes(t)]

RECURSIVE ToUpper(_)
ToUpper(t) ==
    IF t = <<>> THEN <<>>
    ELSE <<UpperHexDigits[IndexOf(HexDigits, Head(t))]>> \o ToUpper(Tail(t))

\* ------------------------------------------------ PushSubscriptionVerifier
NoComponents ==
    [Timestamp |-> 0, Signature |-> <<>>, hasTimestamp |-> FALSE, hasSignature |-> FALSE,
     err |-> ""]

\* The key and the value of a header element, <<>> for an element without "=".
KeyValue(element) ==
    LET parts == SplitN2(TrimSpace(element), "=")
    IN  IF Len(parts) # 2 THEN <<>> ELSE parts

RECURSIVE ParseElements(_, _)
\* The loop of parseSignatureHeader over the elements.
ParseElements(elements, acc) ==
    IF elements = <<>> THEN acc
    ELSE LET kv == KeyValue(Head(elements))
         IN  IF kv = <<>> THEN ParseElements(Tail(elements), acc)
             ELSE IF kv[1] = <<"t">>
             THEN IF ~ParseInt(kv[2]).ok
                  THEN [acc EXCEPT !.err = "INVALID_TIMESTAMP"]
                  ELSE ParseElements(Tail(elements),
                          [acc EXCEPT !.Timestamp = ParseInt(kv[2]).n, !.hasTimestamp = TRUE])
             ELSE IF kv[1] = <<"v", "1">>
             THEN ParseElements(Tail(elements),
                          [acc EXCEPT !.Signature = kv[2], !.hasSignature = TRUE])
             ELSE ParseElements(Tail(elements), acc)

\* parseSignatureHeader that asks for the timestamp only.
parseSignatureHeader_TimestampOnly(header) ==
    IF header = <<>> THEN [NoComponents EXCEPT !.err = "MISSING_SIGNATURE_HEADER"]
    ELSE LET acc == ParseElements(Split(header, ","), NoComponents)
         IN  IF acc.err # "" THEN acc
             ELSE IF ~acc.hasTimestamp
             THEN [acc EXCEPT !.err = "INVALID_SIGNATURE_FORMAT"]
             ELSE acc

parseSignatureHeader(header) ==
    IF header = <<>> THEN [NoComponents EXCEPT !.err = "MISSING_SIGNATURE_HEADER"]
    ELSE LET acc == ParseElements(Split(header, ","), NoComponents)
         IN  IF acc.err # "" THEN acc
             ELSE IF ~acc.hasTimestamp \/ ~acc.hasSignature
             THEN [acc EXCEPT !.err = "INVALID_SIGNATURE_FORMAT"]
             ELSE acc

isTimestampValid(currentTime, timestamp, tolerance) ==
    Wrap(currentTime - timestamp) <= tolerance /\ timestamp <= currentTime

\* calculateSignature whose payload leaves out the body.
calculateSignature_WithoutBody(secret, timestamp, body) ==
    EncodeToString(HMAC(secret, Itoa(timestamp) \o <<".">>))

calculateSignature(secret, timestamp, body) ==
    EncodeToString(HMAC(secret, Itoa(timestamp) \o <<".">> \o body))

constantTimeEqual(expected, actual) ==
    /\ DecodeString(expected).ok
    /\ DecodeString(actual).ok
    /\ DecodeString(expected).bytes = DecodeString(actual).bytes

\* The tolerance VerifySignature works with.
Tolerance(o) == IF o.isNil THEN DefaultTolerance ELSE o.Tolerance

\* The code of the error VerifySignature returns, "" for nil.
VerifySignature(secret, currentTime, signature, body, o) ==
    LET components == parseSignatureHeader(signature)
    IN  IF components.err # "" THEN components.err
        ELSE IF ~isTimestampValid(currentTime, components.Timestamp, Tolerance(o))
        THEN "TIMESTAMP_TOO_OLD"
        ELSE IF ~constantTimeEqual(calculateSignature(secret, components.Timestamp, body),
                                   components.Signature)
        THEN "INVALID_SIGNATURE"
        ELSE ""

\* The sender's side: the hex HMAC of "<timestamp>.<body>", and the header
\* "t=<timestamp>,v1=<signature>" that carries it.
SignatureOf(secret, timestamp, body) ==
    EncodeToString(HMAC(secret, Itoa(timestamp) \o <<".">> \o body))

createValidSignature(secret, timestamp, body) ==
    <<"t", "=">> \o Itoa(timestamp) \o <<",", "v", "1", "=">>
        \o SignatureOf(secret, timestamp, body)

\* The arguments of VerifySignature, and the clock it reads.
Nows == {400}

RequestBodies == {<<"a">>, <<"b">>}

VerificationOptionArgs ==
    {[isNil |-> TRUE, Tolerance |-> 0]}
    \cup [isNil : {FALSE}, Tolerance : {-1, 0, 1, DefaultTolerance}]

\* Timestamps around the clock: the oldest integer, just beyond and just within
\* the default tolerance, a second ago, now, and a second ahead.
Timestamps(now) ==
    {MinInt, now - DefaultTolerance - 1, now - DefaultTolerance, now - 1, now, now + 1}

\* The elements headers are made of: timestamps (plain, spaced, not a number,
\* out of range, without "="), signatures (of each secret, timestamp and body,
\* one in upper case, not hex, of odd length, empty) and others.
HeaderElements(now) ==
    {<<"t", "=">> \o Itoa(ts) : ts \in Timestamps(now)}
    \cup {<<" ", "t", "=">> \o Itoa(now) \o <<" ">>}
    \cup {<<"t", "=", "x">>, <<"t", "=">> \o Itoa(MaxInt + 1), <<"t">>}
    \cup {<<"v", "1", "=">> \o SignatureOf(sec, ts, b) :
              sec \in Range(Secrets), ts \in Timestamps(now), b \in RequestBodies}
    \cup {<<"v", "1", "=">> \o ToUpper(SignatureOf(Secrets[1], now, <<"a">>))}
    \cup {<<"v", "1", "=", "z", "z">>, <<"v", "1", "=", "0">>, <<"v", "1", "=">>,
          <<"x", "=", "1">>, <<>>}

Headers(now) ==
    {Join(es, ",") : es \in UNION {[1..n -> HeaderElements(now)] : n \in 0..MaxElements}}

InitVerify ==
    /\ EngineUnused
    /\ StreamUnused
    /\ ClientUnused
    /\ \E now \in Nows :
          call \in [fn : {"VerifySignature"}, secret : Range(Secrets), now : {now},
                    signature : Headers(now), body : RequestBodies,
                    options : VerificationOptionArgs]
    /\ result = [pc |-> "called"]

VerifySignatureReturns ==
    Returns([pc |-> "returned",
             code |-> VerifySignature(call.secret, call.now, call.signature, call.body,
                                      call.options)])

SpecVerify == InitVerify /\ [][VerifySignatureReturns]_vars

\* -------------------------------------------- variants of a signature header
\* The elements of the headers that are rewritten: a fresh and a stale
\* timestamp, the signature of the body "a" at each, and an unrecognized key.
VariantElements(now) ==
    {<<"t", "=">> \o Itoa(ts) : ts \in {now, now - DefaultTolerance - 1}}
    \cup {<<"v", "1", "=">> \o SignatureOf(Secrets[1], ts, <<"a">>) :
              ts \in {now, now - DefaultTolerance - 1}}
    \cup {<<"x", "=", "1">>}

\* Elements with keys the parser does not recognize.
ExtraElements == {<<"x", "=", "1">>, <<"v", "2", "=", "0">>}

ElementLists(now) ==
    UNION {[1..n -> VariantElements(now)] : n \in 1..MaxVariantElements}

\* The same elements in another order.
Reordered(es) ==
    {[k \in DOMAIN es |-> es[p[k]]] :
        p \in {f \in [DOMAIN es -> DOMAIN es] : \A j, k \in DOMAIN es : f[j] = f[k] => j = k}}

\* The same elements with whitespace around each.
Padded(es) ==
    {[k \in DOMAIN es |-> <<pad>> \o es[k] \o <<pad>>] : pad \in Whitespace}

\* The same elements with one more, of an unrecognized key, somewhere.
Extended(es) ==
    {SubSeq(es, 1, k) \o <<x>> \o SubSeq(es, k + 1, Len(es)) :
        k \in 0..Len(es), x \in ExtraElements}

\* Two calls of VerifySignature with the same secret, body, options and clock:
\* one with a header, one with a variant of it.
InitVariants ==
    /\ EngineUnused
    /\ StreamUnused
    /\ ClientUnused
    /\ \E now \in Nows :
          \E es \in ElementLists(now), kind \in {"order", "whitespace", "extra"} :
             \E v \in (CASE kind = "order" -> Reordered(es)
                          [] kind = "whitespace" -> Padded(es)
                          [] kind = "extra" -> Extended(es)) :
                call \in [fn : {"VerifySignature"}, secret : Range(Secrets), now : {now},
                          elements : {es}, signature : {Join(es, ",")},
                          kind : {kind}, variant : {Join(v, ",")},
                          body : RequestBodies, options : {[isNil |-> TRUE, Tolerance |-> 0]}]
    /\ result = [pc |-> "called"]

VerifyVariantsReturn ==
    Returns([pc |-> "returned",
             code |-> VerifySignature(call.secret, call.now, call.signature, call.body,
                                      call.options),
             variantCode |-> VerifySignature(call.secret, call.now, call.variant, call.body,
                                             call.options)])

SpecVariants == InitVariants /\ [][VerifyVariantsReturn]_vars

\* ------------------------------------------- verification entry points
\* An error value: nil, a *PushSubscriptionVerificationError with its code, or
\* an error of another type (fmt.Errorf).
NilError == [isNil |-> TRUE, typed |-> FALSE, code |-> ""]

VerificationError(code) ==
    IF code = "" THEN NilError ELSE [isNil |-> FALSE, typed |-> TRUE, code |-> code]

\* The error NewPushSubscriptionVerifier returns.
NewPushSubscriptionVerifier(secret) ==
    IF secret = "" THEN [isNil |-> FALSE, typed |-> FALSE, code |-> ""] ELSE NilError

VerifyPushSubscriptionSignature(secret, currentTime, signature, body, o) ==
    IF ~NewPushSubscriptionVerifier(secret).isNil THEN NewPushSubscriptionVerifier(secret)
    ELSE VerificationError(VerifySignature(secret, currentTime, signature, body, o))

\* SailhouseClient.VerifyPushSubscription.
VerifyPushSubscription(currentTime, signature, body, secret, o) ==
    VerifyPushSubscriptionSignature(secret, currentTime, signature, body, o)

\* The headers the entry points are called with: none, a timestamp that is no
\* number, and the lists of elements above.
EntryHeaders(now) ==
    {<<>>, <<"t", "=", "x">>} \cup {Join(es, ",") : es \in ElementLists(now)}

\* A verifier exists only for a non-empty secret; the convenience function and
\* the client method take any secret.
InitEntry ==
    /\ EngineUnused
    /\ StreamUnused
    /\ ClientUnused
    /\ \E now \in Nows :
          \/ call \in [fn : {"VerifySignature"}, secret : Range(Secrets), now : {now},
                       signature : EntryHeaders(now), body : RequestBodies,
                       options : {[isNil |-> TRUE, Tolerance |-> 0]}]
          \/ call \in [fn : {"VerifyPushSubscriptionSignature", "VerifyPushSubscription"},
                       secret : Range(Secrets) \cup {""}, now : {now},
                       signature : EntryHeaders(now), body : RequestBodies,
                       options : {[isNil |-> TRUE, Tolerance |-> 0]}]
    /\ result = [pc |-> "called"]

EntryPointReturns ==
    Returns([pc |-> "returned",
             err |-> CASE call.fn = "VerifySignature" ->
                            VerificationError(VerifySignature(call.secret, call.now,
                                call.signature, call.body, call.options))
                       [] call.fn = "VerifyPushSubscriptionSignature" ->
                            VerifyPushSubscriptionSignature(call.secret, call.now,
                                call.signature, call.body, call.options)
                       [] call.fn = "VerifyPushSubscription" ->
                            VerifyPushSubscription(call.now, call.signature, call.body,
                                call.secret, call.options)])

SpecEntry == InitEntry /\ [][EntryPointReturns]_vars

\* ---------------------------------------------------------- StreamEvents
\* StreamEvents runs on the caller's goroutine ("main") up to its return and
\* leaves two goroutines behind: the reader, which reads the websocket and
\* hands each message over on `messages`, and the relay, which decodes the
\* messages and sends them on `events`.  The channels have no buffer: a send
\* is one step together with the receive that takes it.  A goroutine that
\* panics ends the process.
MessageKinds == {"event", "undecodable"}

Alive == spc.reader # "panic"

StreamStep == UNCHANGED <<engineVars, call, result, clientVars>>

InitStream ==
    /\ EngineUnused
    /\ ClientUnused
    /\ call = [fn |-> "StreamEvents"]
    /\ result = [pc |-> "called"]
    /\ conn = "none"
    /\ streamDone = FALSE
    /\ closed = [ch \in {"events", "errs", "messages"} |-> FALSE]
    /\ spc = [main |-> "Dial", reader |-> "none", relay |-> "none"]
    /\ msg = [reader |-> "", relay |-> ""]
    /\ sent = 0
    /\ received = <<>>

\* The owner of the context handed to StreamEvents cancels it.
CancelStreamCtx ==
    /\ ~streamDone
    /\ streamDone' = TRUE
    /\ UNCHANGED <<conn, closed, spc, msg, sent, received>>
    /\ StreamStep

\* websocket.DefaultDialer.DialContext returns; on an error StreamEvents sends
\* it on errs before it has returned the channel.
Dial(ok) ==
    /\ spc.main = "Dial"
    /\ ok => ~streamDone
    /\ conn' = IF ok THEN "open" ELSE conn
    /\ spc' = [spc EXCEPT !.main = IF ok THEN "WriteJSON" ELSE "errs<-"]
    /\ UNCHANGED <<streamDone, closed, msg, sent, received>>
    /\ StreamStep

\* conn.WriteJSON of the auth message returns; on success the two goroutines
\* are started and StreamEvents returns the channels.
WriteJSON(ok) ==
    /\ spc.main = "WriteJSON"
    /\ spc' = IF ok THEN [main |-> "returned", reader |-> "ReadMessage", relay |-> "select"]
              ELSE [spc EXCEPT !.main = "errs<-"]
    /\ UNCHANGED <<conn, streamDone, closed, msg, sent, received>>
    /\ StreamStep

\* The connection closes under the stream: the service closes it or the
\* network fails.
ConnectionCloses ==
    /\ Alive
    /\ conn = "open"
    /\ spc.main = "returned"
    /\ conn' = "failed"
    /\ UNCHANGED <<streamDone, closed, spc, msg, sent, received>>
    /\ StreamStep

\* conn.ReadMessage returns a message.
ReadMessage(kind) ==
    /\ Alive
    /\ spc.reader = "ReadMessage"
    /\ conn = "open"
    /\ sent < MaxMessages
    /\ sent' = sent + 1
    /\ msg' = [msg EXCEPT !.reader = kind]
    /\ spc' = [spc EXCEPT !.reader = "messages<-"]
    /\ UNCHANGED <<conn, streamDone, closed, received>>
    /\ StreamStep

\* conn.ReadMessage returns an error: "use of closed network connection" once
\* the relay has closed the connection (the reader returns), any other error
\* is sent on errs.
ReadMessageFails ==
    /\ Alive
    /\ spc.reader = "ReadMessage"
    /\ conn \in {"failed", "closed"}
    /\ spc' = [spc EXCEPT !.reader = IF conn = "closed" THEN "exited" ELSE "errs<-"]
    /\ UNCHANGED <<conn, streamDone, closed, msg, sent, received>>
    /\ StreamStep

\* A send on a closed channel: the reader panics.
ReaderPanics ==
    /\ Alive
    /\ \/ spc.reader = "messages<-" /\ closed["messages"]
       \/ spc.reader = "errs<-" /\ closed["errs"]
    /\ spc' = [spc EXCEPT !.reader = "panic"]
    /\ UNCHANGED <<conn, streamDone, closed, msg, sent, received>>
    /\ StreamStep

\* The relay's select takes the message the reader sends; json.Unmarshal then
\* gives an event, sent on events, or an error, sent on errs.
RelayMessage ==
    /\ Alive
    /\ spc.reader = "messages<-"
    /\ ~closed["messages"]
    /\ spc.relay = "select"
    /\ msg' = [reader |-> "", relay |-> msg.reader]
    /\ spc' = [spc EXCEPT !.reader = "ReadMessage",
                          !.relay = IF msg.reader = "event" THEN "events<-" ELSE "errs<-"]
    /\ UNCHANGED <<conn, streamDone, closed, sent, received>>
    /\ StreamStep

\* The relay returns and its deferred function runs: conn.Close(),
\* close(messages), close(errs).
RelayReturns(rcv) ==
    /\ conn' = "closed"
    /\ closed' = [closed EXCEPT !["messages"] = TRUE, !["errs"] = TRUE]
    /\ spc' = [spc EXCEPT !.relay = "exited"]
    /\ received' = rcv
    /\ UNCHANGED <<streamDone, msg, sent>>
    /\ StreamStep

\* The relay's select takes <-done.
RelayDone ==
    /\ Alive
    /\ spc.relay = "select"
    /\ streamDone
    /\ RelayReturns(received)

\* The caller receives the event the relay sends on events.
ReceiveEvent ==
    /\ Alive
    /\ spc.main = "returned"
    /\ spc.relay = "events<-"
    /\ received' = Append(received, "event")
    /\ spc' = [spc EXCEPT !.relay = "select"]
    /\ UNCHANGED <<conn, streamDone, closed, msg, sent>>
    /\ StreamStep

\* The caller receives the error the relay sends on errs; the relay returns.
ReceiveRelayError ==
    /\ Alive
    /\ spc.main = "returned"
    /\ spc.relay = "errs<-"
    /\ RelayReturns(Append(received, "failed to unmarshal message"))

\* The caller receives the error the reader sends on errs; the reader returns.
ReceiveReaderError ==
    /\ Alive
    /\ spc.main = "returned"
    /\ spc.reader = "errs<-"
    /\ ~closed["errs"]
    /\ received' = Append(received, "failed to read message")
    /\ spc' = [spc EXCEPT !.reader = "exited"]
    /\ UNCHANGED <<conn, streamDone, closed, msg, sent>>
    /\ StreamStep

ReaderNext ==
    \/ \E kind \in MessageKinds : ReadMessage(kind)
    \/ ReadMessageFails
    \/ ReaderPanics

RelayNext ==
    \/ RelayMessage
    \/ RelayDone

CallerNext ==
    \/ ReceiveEvent
    \/ ReceiveRelayError
    \/ ReceiveReaderError

NextStream ==
    \/ CancelStreamCtx
    \/ \E ok \in BOOLEAN : Dial(ok)
    \/ \E ok \in BOOLEAN : WriteJSON(ok)
    \/ ConnectionCloses
    \/ ReaderNext
    \/ RelayNext
    \/ CallerNext

SpecStream == InitStream /\ [][NextStream]_vars

\* The goroutines run, and the caller keeps receiving from both channels.
SpecStreamFair ==
    /\ SpecStream
    /\ WF_vars(ReaderNext)
    /\ WF_vars(RelayNext)
    /\ WF_vars(CallerNext)

\* ------------------------------------------------ SailhouseClient.Subscribe
\* Subscribe starts one goroutine that pulls in a loop and returns at once.
\* The goroutine keeps a trace of the calls it makes; "handler:Ack" is an
\* acknowledge made by the caller's handler, not by the goroutine.
MaxPulls == 3

pollingInterval == 5

PullOutcomes == {"event", "nil", "error"}

\* Every *SubscriptionOptions a caller can pass.
SubscriptionOptionArgs ==
    {[isNil |-> TRUE, OnError |-> FALSE, ExitOnErr |-> FALSE]}
        \cup [isNil : {FALSE}, OnError : BOOLEAN, ExitOnErr : BOOLEAN]

\* errHandler is opts.OnError when one is given, and does nothing otherwise.
errHandler(opts, err) == IF ~opts.isNil /\ opts.OnError THEN <<err>> ELSE <<>>

exitOnErr(opts) == ~opts.isNil /\ opts.ExitOnErr

SubscribeStep == UNCHANGED <<engineVars, streamVars, call, result>>

\* Subscribe has returned and its goroutine is about to pull.
InitSubscribe ==
    /\ EngineUnused
    /\ StreamUnused
    /\ \E o \in SubscriptionOptionArgs : call = [fn |-> "Subscribe", opts |-> o]
    /\ result = [pc |-> "returned"]
    /\ poller = [pc |-> "PullEvent", trace |-> <<>>, pulls |-> 0, timer |-> 0, slept |-> 0]
    /\ doneChan = FALSE

\* The owner of the context handed to Subscribe cancels it.
CancelSubscribeCtx ==
    /\ ~doneChan
    /\ doneChan' = TRUE
    /\ UNCHANGED poller
    /\ SubscribeStep

\* select { case <-time.After(pollingInterval): continue; case <-doneChan: return }
PollerSelect(p) == [p EXCEPT !.pc = "select", !.timer = pollingInterval]

PollerPulls_KeepsPollingOnError(outcome, cancels) ==
    /\ poller.pc = "PullEvent"
    /\ poller.pulls < MaxPulls
    /\ LET p == [poller EXCEPT !.pulls = @ + 1,
                               !.trace = @ \o <<"PullEvent:" \o outcome>>]
       IN  CASE outcome = "error" ->
                  /\ poller' = [PollerSelect(p) EXCEPT
                                       !.trace = @ \o errHandler(call.opts, "OnError")]
                  /\ doneChan' =
                        (doneChan \/ (cancels /\ errHandler(call.opts, "OnError") # <<>>))
             [] outcome = "event" ->
                  /\ ~cancels
                  /\ poller' = [p EXCEPT !.pc = "handler", !.trace = @ \o <<"handler">>]
                  /\ UNCHANGED doneChan
             [] outcome = "nil" ->
                  /\ ~cancels
                  /\ poller' = PollerSelect(p)
                  /\ UNCHANGED doneChan
    /\ SubscribeStep

\* c.PullEvent returns.  An error goes to errHandler, which may cancel the
\* context, and then the goroutine returns or waits; an event goes to the
\* handler; with no event the goroutine waits.
PollerPulls(outcome, cancels) ==
    /\ poller.pc = "PullEvent"
    /\ poller.pulls < MaxPulls
    /\ LET p == [poller EXCEPT !.pulls = @ + 1,
                               !.trace = @ \o <<"PullEvent:" \o outcome>>]
       IN  CASE outcome = "error" ->
                  /\ poller' =
                        IF exitOnErr(call.opts)
                        THEN [p EXCEPT !.pc = "exited",
                                       !.trace = @ \o errHandler(call.opts, "OnError")]
                        ELSE [PollerSelect(p) EXCEPT
                                       !.trace = @ \o errHandler(call.opts, "OnError")]
                  /\ doneChan' =
                        (doneChan \/ (cancels /\ errHandler(call.opts, "OnError") # <<>>))
             [] outcome = "event" ->
                  /\ ~cancels
                  /\ poller' = [p EXCEPT !.pc = "handler", !.trace = @ \o <<"handler">>]
                  /\ UNCHANGED doneChan
             [] outcome = "nil" ->
                  /\ ~cancels
                  /\ poller' = PollerSelect(p)
                  /\ UNCHANGED doneChan
    /\ SubscribeStep

\* The caller's handler returns, having acknowledged the event or not.
PollerHandlerReturns(acks) ==
    /\ poller.pc = "handler"
    /\ poller' = [poller EXCEPT !.pc = "PullEvent",
                                !.trace = IF acks THEN @ \o <<"handler:Ack">> ELSE @]
    /\ UNCHANGED doneChan
    /\ SubscribeStep

\* The select returns on the first of its channels to become ready: the timer
\* channel after pollingInterval, with the context still live, or doneChan.
PollerWakes ==
    /\ poller.pc = "select"
    /\ poller' = IF doneChan
                 THEN [poller EXCEPT !.pc = "exited", !.timer = 0]
                 ELSE [poller EXCEPT !.pc = "PullEvent", !.timer = 0, !.slept = poller.timer]
    /\ UNCHANGED doneChan
    /\ SubscribeStep

NextSubscribe ==
    \/ CancelSubscribeCtx
    \/ \E outcome \in PullOutcomes, cancels \in BOOLEAN : PollerPulls(outcome, cancels)
    \/ \E acks \in BOOLEAN : PollerHandlerReturns(acks)
    \/ PollerWakes

SpecSubscribe == InitSubscribe /\ [][NextSubscribe]_vars

\* --------------------------------------------------- SailhouseClient.Wait
\* Wait makes its requests one after the other on the caller's goroutine.  The
\* service's answer to each request is drawn with the call; Wait returns the
\* error, and the model keeps the requests it has issued, in order.
MaxEvents == 2

WaitStatusCodes == {200, 201, 500}

ResponsesWith(bodies) ==
    {[transport |-> "error", StatusCode |-> 0, Body |-> [decodes |-> FALSE, id |-> ""]]}
    \cup [transport : {"ok"}, StatusCode : WaitStatusCodes, Body : bodies]

\* The body of a publish response decodes into a PublishResponse or does not;
\* the body of the response to the last request is not read on success.
PublishBodies == [decodes : BOOLEAN, id : {""}]

MarkBodies == {[decodes |-> FALSE, id |-> ""]}

WaitEvents == {[Topic |-> "topic1", Body |-> "a"], [Topic |-> "topic2", Body |-> "b"]}

EventLists == UNION {[1..n -> WaitEvents] : n \in 0..MaxEvents}

\* POST {baseURL}/waitgroups/instances
CreateRequest(topic) ==
    [request |-> "POST /waitgroups/instances", topic |-> topic, data |-> "",
     wait_group_instance_id |-> ""]

\* POST {baseURL}/topics/{topic}/events, with WithWaitGroupInstanceID(id)
PublishRequest(event, id) ==
    [request |-> "POST /topics/events", topic |-> event.Topic, data |-> event.Body,
     wait_group_instance_id |-> id]

\* PUT {baseURL}/waitgroups/instances/{id}/events
MarkRequest(id) ==
    [request |-> "PUT /waitgroups/instances/events", topic |-> "", data |-> "",
     wait_group_instance_id |-> id]

\* The error Wait makes of the response to the create request.
CreateError(res) ==
    IF res.transport = "error" THEN [kind |-> "transport", code |-> 0]
    ELSE IF res.StatusCode < 200 \/ res.StatusCode >= 300
    THEN [kind |-> "failed to create wait group", code |-> res.StatusCode]
    ELSE IF ~res.Body.decodes THEN [kind |-> "decode", code |-> 0]
    ELSE NoError

\* The error c.Publish returns for the response to its request.
Publish(res) ==
    IF res.transport = "error" THEN [kind |-> "transport", code |-> 0]
    ELSE IF res.StatusCode # 201
    THEN [kind |-> "failed to send message", code |-> res.StatusCode]
    ELSE IF ~res.Body.decodes THEN [kind |-> "decode", code |-> 0]
    ELSE NoError

\* The error Wait makes of the response to the mark-in-progress request.
MarkError(res) ==
    IF res.transport = "error" THEN [kind |-> "transport", code |-> 0]
    ELSE IF res.StatusCode < 200 \/ res.StatusCode >= 300
    THEN [kind |-> "failed to mark wait group as in progress", code |-> res.StatusCode]
    ELSE NoError

\* The loop that goes on to the next event after a failed publish.
RECURSIVE PublishEvents_IgnoringErrors(_, _, _)
PublishEvents_IgnoringErrors(events, responses, waitGroupID) ==
    IF events = <<>> THEN [requests |-> <<>>, err |-> NoError]
    ELSE LET req == PublishRequest(Head(events), waitGroupID)
             rest == PublishEvents_IgnoringErrors(Tail(events), Tail(responses), waitGroupID)
         IN  [requests |-> <<req>> \o rest.requests, err |-> rest.err]

\* for _, event := range events { ... c.Publish(...); if err != nil { return err } }
RECURSIVE PublishEvents(_, _, _)
PublishEvents(events, responses, waitGroupID) ==
    IF events = <<>> THEN [requests |-> <<>>, err |-> NoError]
    ELSE LET req == PublishRequest(Head(events), waitGroupID)
             err == Publish(Head(responses))
         IN  IF err # NoError THEN [requests |-> <<req>>, err |-> err]
             ELSE LET rest == PublishEvents(Tail(events), Tail(responses), waitGroupID)
                  IN  [requests |-> <<req>> \o rest.requests, err |-> rest.err]

\* What Wait returns, with the requests it has issued.
Wait(topic, events, service) ==
    LET create == CreateRequest(topic)
    IN  IF CreateError(service.create) # NoError
        THEN [requests |-> <<create>>, err |-> CreateError(service.create)]
        ELSE LET waitGroupID == service.create.Body.id
                 published == PublishEvents(events, service.publish, waitGroupID)
             IN  IF published.err # NoError
                 THEN [requests |-> <<create>> \o published.requests, err |-> published.err]
                 ELSE [requests |-> <<create>> \o published.requests
                                      \o <<MarkRequest(waitGroupID)>>,
                       err |-> MarkError(service.mark)]

InitWait ==
    /\ EngineUnused
    /\ StreamUnused
    /\ ClientUnused
    /\ \E events \in EventLists :
          call \in [fn : {"Wait"}, topic : {"topic0"}, events : {events},
                    service : [create : ResponsesWith(Bodies),
                               publish : [1..Len(events) -> ResponsesWith(PublishBodies)],
                               mark : ResponsesWith(MarkBodies)]]
    /\ result = [pc |-> "called"]

WaitReturns ==
    Returns([pc |-> "returned", ret |-> Wait(call.topic, call.events, call.service)])

SpecWait == InitWait /\ [][WaitReturns]_vars

\* ------------------------------------------------------------- observations
Count(t, x) == Cardinality({k \in DOMAIN t : t[k] = x})

\* The worker is back in runProcessor from processEventWithRetries.
Processed(w) == w.pc = "select" /\ w.event # NoEvent

\* n failed handler invocations.
Failures(n) == [k \in 1..(2 * n) |-> IF k % 2 = 1 THEN "Handler" ELSE "Handler:error"]

\* A call to Stop by c returns in the current state: one made now takes the
\* early return, or the pending one comes back from wg.Wait().
StopReturns(c) ==
    \/ Idle(c) /\ ~running
    \/ callers[c] = "Wait" /\ wg = 0

\* The step is a call of Start that returns nil.
StartSucceeds == StartErr = "" /\ \E c \in Callers, p \in ParentCtxs : Start(c, p)

\* Worker i makes a PullEvent call or a handler call in the step.
BeginsWork(i) ==
    /\ workers'[i] # workers[i]
    /\ workers'[i].pc \in {"PullEvent", "Handler"}

\* ------------------------------------------------------------------- claims

\* C1: immediately after a successful Start on an engine with R registrations and
\* P processors per subscription exactly P*R workers are active, P per
\* registration, each bound to that registration.
C1_ExactlyPxRWorkersAfterStart ==
    [][StartSucceeds =>
        /\ Cardinality(ActiveWorkers') =
              options.PerSubscriptionProcessors * Len(subscriptions)
        /\ \A r \in Registrations :
              Cardinality({i \in ActiveWorkers' : workers'[i].sub = r}) =
                 options.PerSubscriptionProcessors * Count(subscriptions, r)]_vars

\* C2: whenever a call to Stop returns, made from any goroutine, no worker of
\* the engine is still running.
C2_NoWorkerWhenStopReturns ==
    \A c \in Callers : StopReturns(c) => ActiveWorkers = {}

\* C3: with MaxRetries = N, a handler that fails on every attempt and no
\* cancellation, the event gets exactly N+1 handler invocations, then the
\* terminal failure is reported to the error callback exactly once (when a
\* callback is configured) and the event is acknowledged.
C3_RetryBound ==
    \A i \in DOMAIN workers :
        LET w == workers[i]
            t == w.trace
        IN  (Processed(w) /\ ~Done(w.run) /\ Count(t, "Handler:nil") = 0) =>
                /\ Count(t, "Handler") = options.MaxRetries + 1
                /\ Count(t, "ErrorHandler:attempts") = (IF options.ErrorHandler THEN 1 ELSE 0)
                /\ Count(t, "Ack") = 1
                /\ \A k, m \in DOMAIN t :
                      (t[k] = "Handler" /\ t[m] \in {"ErrorHandler:attempts", "Ack"}) => k < m

C3_Witness ==
    \E i \in DOMAIN workers :
        /\ Processed(workers[i]) /\ ~Done(workers[i].run)
        /\ options.ErrorHandler /\ options.MaxRetries = MaxRetriesIn
        /\ Count(workers[i].trace, "Handler:nil") = 0
        /\ Count(workers[i].trace, "Handler") = MaxRetriesIn + 1
        /\ Count(workers[i].trace, "ErrorHandler:attempts") = 1

\* C4: a handler that fails on its first k-1 attempts and succeeds on attempt
\* k <= MaxRetries+1, with no cancellation and a successful acknowledge, is
\* invoked exactly k times, the event is acknowledged once after the k-th
\* invocation and the error callback is not invoked.
C4_SuccessAfterRetries ==
    \A i \in DOMAIN workers :
        LET w == workers[i]
            t == w.trace
            k == w.attempt + 1
        IN  (Processed(w) /\ ~Done(w.run) /\ Count(t, "Handler:nil") > 0
                /\ Count(t, "Ack:nil") > 0) =>
                /\ k <= options.MaxRetries + 1
                /\ t = Failures(k - 1) \o <<"Handler", "Handler:nil", "Ack", "Ack:nil">>

C4_Witness ==
    \E i \in DOMAIN workers :
        /\ Processed(workers[i]) /\ ~Done(workers[i].run)
        /\ options.ErrorHandler
        /\ workers[i].trace =
              <<"Handler", "Handler:error", "Handler", "Handler:nil", "Ack", "Ack:nil">>

\* C5: after a run's cancellation signal has fired every worker of the run
\* eventually exits, and no worker of the run makes a new pull or a new handler
\* invocation once the signal has fired.
C5_WorkersExitAfterCancel ==
    /\ \A r \in 1..MaxRuns :
          (r <= ctx /\ Done(r)) ~>
              (\A i \in DOMAIN workers : workers[i].run = r => ~Active(workers[i]))
    /\ [][\A i \in DOMAIN workers : BeginsWork(i) => ~Done(workers[i].run)]_vars

\* C6: Start on an engine with no registration returns "no subscriptions
\* registered", spawns no worker and leaves the engine as it was: not running,
\* no cancellation signal derived.
C6_StartWithoutSubscriptions ==
    /\ [](Len(subscriptions) = 0 =>
            StartErr = "no subscriptions registered" /\ ~IsRunningResult /\ ctx = 0)
    /\ [][\A c \in Callers, p \in ParentCtxs :
            (Len(subscriptions) = 0 /\ Start(c, p)) =>
                UNCHANGED <<subscriptions, running, ctx, ctxParent, cancelled, wg,
                            workers>>]_vars

C6_Witness ==
    /\ Len(subscriptions) = 0
    /\ StartErr = "no subscriptions registered"
    /\ \E c \in Callers : ENABLED Start(c, "testCtx")

\* C7: Start on a running engine returns an "already running" error and changes
\* nothing: no worker is spawned, the workers keep their cancellation signal
\* and IsRunning stays true.
C7_StartWhileRunning ==
    /\ [](running => StartErr = "subscriber is already running")
    /\ [][\A c \in Callers, p \in ParentCtxs :
            (running /\ Start(c, p)) =>
                /\ UNCHANGED <<subscriptions, ctx, ctxParent, cancelled, wg, workers>>
                /\ IsRunningResult']_vars

C7_Witness ==
    /\ running
    /\ StartErr = "subscriber is already running"
    /\ \E i \in DOMAIN workers : workers[i].pc = "Handler"
    /\ \E c \in Callers : ENABLED Start(c, "testCtx")

\* C8: Subscribe on a running engine panics and leaves the engine as it was and
\* usable: same registrations, still running, the workers untouched, and s.mu
\* released, so that later IsRunning, GetSubscriptions and Stop calls go through.
C8_SubscribeWhileRunning ==
    /\ [](running => SubscribeErr = "panic")
    /\ [](mu = "unlocked")
    /\ [](\A c \in Callers : callers[c] = "idle" =>
            ENABLED IsRunning(c) /\ ENABLED GetSubscriptions(c) /\ ENABLED StopLocked(c))
    /\ [][\A c \in Callers, reg \in Registrations :
            (running /\ Subscribe(c, reg)) =>
                /\ UNCHANGED <<subscriptions, running, ctx, cancelled, wg, workers>>
                /\ IsRunningResult']_vars

C8_Witness ==
    /\ running
    /\ SubscribeErr = "panic"
    /\ ActiveWorkers # {}
    /\ \E c \in Callers, reg \in Registrations : ENABLED Subscribe(c, reg)

\* C9, as stated: once the context passed to Start has been cancelled, IsRunning
\* is false without any call to Stop, at the latest when every worker has left.
C9_NotRunningAfterContextCancel ==
    (/\ ctx # 0
     /\ ctx \notin cancelled
     /\ ctxParent[ctx] = "testCtx" /\ testCancelled
     /\ ActiveWorkers = {}) => ~IsRunningResult

\* C9, amended: cancelling the context passed to Start does not change
\* IsRunning; it goes from true to false only in a call to Stop.
C9_RunningUntilStop ==
    /\ [][CancelTestCtx => IsRunningResult' = IsRunningResult]_vars
    /\ [][(IsRunningResult /\ ~IsRunningResult') => \E c \in Callers : StopLocked(c)]_vars

C9_Witness ==
    /\ ctx # 0
    /\ ctx \notin cancelled
    /\ ctxParent[ctx] = "testCtx" /\ testCancelled
    /\ Len(workers) > 0 /\ ActiveWorkers = {}
    /\ \A c \in Callers : callers[c] = "idle"
    /\ IsRunningResult

\* C10: after the context passed to Start has been cancelled, an explicit Stop
\* returns, and IsRunning is false once it has returned.
C10_StopAfterContextCancel ==
    /\ \A c \in Callers :
          (callers[c] = "Wait" /\ c \in stopAfterCancel) ~> (callers[c] = "idle")
    /\ [][\A c \in Callers :
            (c \in stopAfterCancel /\ callers[c] = "Wait" /\ callers'[c] = "idle") =>
                ~IsRunningResult']_vars

\* A Stop has gone through, none is pending and the engine was not started again.
Stopped == ctx # 0 /\ ~running /\ \A c \in Callers : callers[c] = "idle"

\* C11: Stop on an engine that was never started is a no-op: it returns at once,
\* without blocking and with s.mu released, and changes neither the run state
\* nor the registration list.
C11_StopNeverStarted ==
    /\ [](ctx = 0 => (~IsRunningResult /\ \A c \in Callers : Idle(c) /\ StopReturns(c)))
    /\ [][\A c \in Callers :
            (ctx = 0 /\ StopLocked(c)) =>
                UNCHANGED <<subscriptions, running, ctx, cancelled, wg, mu, workers,
                            callers>>]_vars

C11_Witness ==
    /\ ctx = 0
    /\ Len(subscriptions) = MaxSubs
    /\ \A c \in Callers : ENABLED StopLocked(c)

\* C12: Stop called again after a Stop has completed returns without blocking
\* and leaves the engine as the first Stop left it: not running, no worker
\* active, the same registrations.
C12_StopIdempotent ==
    /\ [](Stopped => (~IsRunningResult /\ ActiveWorkers = {} /\ wg = 0
                        /\ \A c \in Callers : StopReturns(c)))
    /\ [][\A c \in Callers :
            (Stopped /\ StopLocked(c)) =>
                UNCHANGED <<subscriptions, running, ctx, cancelled, wg, mu, workers,
                            callers>>]_vars

C12_Witness ==
    /\ Stopped
    /\ Len(workers) > 0
    /\ \A c \in Callers : ENABLED StopLocked(c)

\* C13: the engine is not restartable: once Stop has moved it out of running,
\* no later call makes IsRunning true again or spawns workers.
C13_NotRestartable ==
    [][(ctx # 0 /\ ~IsRunningResult) =>
          (~IsRunningResult' /\ Len(workers') = Len(workers))]_vars

\* The caller leaves the field f of the options unset: nil options, or a struct
\* whose field has its zero value.
Unset(o, f) == o.isNil \/ o[f] = 0

\* C14: for PerSubscriptionProcessors, PollInterval, MaxRetries and RetryDelay,
\* an option the caller does not specify takes its documented default: 1
\* processor, 1 second, 3 retries, 1 second.
C14_DefaultsWhenUnset ==
    result.pc = "returned" =>
        LET o == call.options
            e == result.options
        IN  /\ Unset(o, "PerSubscriptionProcessors") =>
                e.PerSubscriptionProcessors = DefaultPerSubscriptionProcessors
            /\ Unset(o, "PollInterval") => e.PollInterval = DefaultPollInterval
            /\ Unset(o, "MaxRetries") => e.MaxRetries = DefaultMaxRetries
            /\ Unset(o, "RetryDelay") => e.RetryDelay = DefaultRetryDelay

\* The request of the call was sent and answered with a response.
Answered ==
    /\ result.pc = "returned"
    /\ call.topic \notin InvalidPathSegments
    /\ call.subscription \notin InvalidPathSegments
    /\ call.response.transport = "ok"

\* C15, as stated: PullEvent has three outcomes: status 204 gives no event and
\* no error; status 200 gives an event bound to the requested topic and
\* subscription; any other status, or a transport failure, gives an error and
\* no event.
C15_PullEventOutcomes ==
    result.pc = "returned" =>
        LET r == result.ret
            st == call.response.StatusCode
        IN  /\ ~Answered => (r.isNil /\ r.err # NoError)
            /\ (Answered /\ st = 204) => (r.isNil /\ r.err = NoError)
            /\ (Answered /\ st = 200) =>
                  (/\ ~r.isNil /\ r.err = NoError
                   /\ r.event.topic = call.topic
                   /\ r.event.subscription = call.subscription)
            /\ (Answered /\ st \notin {200, 204}) => (r.isNil /\ r.err # NoError)

\* C15, amended: as above, but status 200 gives the bound event only when the
\* body decodes; status 200 with a body that does not decode gives the decode
\* error and no event.
C15_PullEventOutcomesDecoded ==
    result.pc = "returned" =>
        LET r == result.ret
            st == call.response.StatusCode
            body == call.response.Body
        IN  /\ ~Answered => (r.isNil /\ r.err # NoError)
            /\ (Answered /\ st = 204) => (r.isNil /\ r.err = NoError)
            /\ (Answered /\ st = 200 /\ body.decodes) =>
                  (/\ ~r.isNil /\ r.err = NoError
                   /\ r.event = [ID |-> body.id, topic |-> call.topic,
                                 subscription |-> call.subscription])
            /\ (Answered /\ st = 200 /\ ~body.decodes) =>
                  (r.isNil /\ r.err.kind = "decode")
            /\ (Answered /\ st \notin {200, 204}) =>
                  (r.isNil /\ r.err = [kind |-> "failed to get events", code |-> st])

C15_Witness ==
    /\ Answered
    /\ call.response.StatusCode = 200
    /\ call.response.Body.decodes
    /\ result.ret.event = [ID |-> "id2", topic |-> "topic1", subscription |-> "sub1"]

\* ---- the signature header as the caller sees it
\* The positions of the header's elements with the given key.
ElementsWithKey(header, key) ==
    LET es == Split(header, ",")
    IN  {k \in DOMAIN es : KeyValue(es[k]) # <<>> /\ KeyValue(es[k])[1] = key}

HasElement(header, key) == ElementsWithKey(header, key) # {}

\* The value of the last element with the given key.
LastValue(header, key) ==
    LET es == Split(header, ",")
        last == CHOOSE k \in ElementsWithKey(header, key) :
                    \A j \in ElementsWithKey(header, key) : j <= k
    IN  KeyValue(es[last])[2]

\* Some `t` element of the header is not an integer.
BadTimestamp(header) ==
    \E k \in ElementsWithKey(header, <<"t">>) :
        ~ParseInt(KeyValue(Split(header, ",")[k])[2]).ok

\* The header has a `t` and a `v1` element and its `t` elements are integers.
WellFormed(header) ==
    /\ header # <<>>
    /\ HasElement(header, <<"t">>)
    /\ HasElement(header, <<"v", "1">>)
    /\ ~BadTimestamp(header)

\* The age of the header's timestamp, in seconds.
Age == call.now - ParseInt(LastValue(call.signature, <<"t">>)).n

Fresh == 0 <= Age /\ Age <= Tolerance(call.options)

\* C16: VerifySignature accepts a parsed timestamp t only if 0 <= now - t <=
\* tolerance (300 for nil options, options.Tolerance otherwise), and a header
\* whose t is older than now - tolerance or in the future fails with
\* TIMESTAMP_TOO_OLD whether or not its signature is correct.
C16_TimestampFreshness ==
    (result.pc = "returned" /\ WellFormed(call.signature)) =>
        /\ result.code = "" => Fresh
        /\ ~Fresh => result.code = "TIMESTAMP_TOO_OLD"

\* C17, as stated: a non-empty header that lacks a `t` element or lacks a `v1`
\* element fails with INVALID_SIGNATURE_FORMAT.
C17_MissingElement ==
    (/\ result.pc = "returned"
     /\ call.signature # <<>>
     /\ ~HasElement(call.signature, <<"t">>) \/ ~HasElement(call.signature, <<"v", "1">>))
        => result.code = "INVALID_SIGNATURE_FORMAT"

\* C17, amended: a non-empty header that lacks a `t` element or lacks a `v1`
\* element fails with INVALID_SIGNATURE_FORMAT, unless one of its `t` elements
\* is not an integer: then it fails with INVALID_TIMESTAMP.
C17_MissingElementOrBadTimestamp ==
    (/\ result.pc = "returned"
     /\ call.signature # <<>>
     /\ ~HasElement(call.signature, <<"t">>) \/ ~HasElement(call.signature, <<"v", "1">>))
        => result.code = (IF BadTimestamp(call.signature) THEN "INVALID_TIMESTAMP"
                          ELSE "INVALID_SIGNATURE_FORMAT")

C17_Witness ==
    /\ result.pc = "returned"
    /\ call.signature = <<"t", "=", "x">>
    /\ result.code = "INVALID_TIMESTAMP"

\* The header's signature is the hex of the HMAC of "<t>.<body>" under the secret.
SignatureMatches ==
    LET v == DecodeString(LastValue(call.signature, <<"v", "1">>))
        t == ParseInt(LastValue(call.signature, <<"t">>)).n
    IN  v.ok /\ v.bytes = HMAC(call.secret, Itoa(t) \o <<".">> \o call.body)

\* C18: VerifySignature reports the first failing check in the order: empty
\* header, MISSING_SIGNATURE_HEADER; header without both t and v1,
\* INVALID_SIGNATURE_FORMAT, or INVALID_TIMESTAMP when t is not an integer;
\* timestamp not fresh, TIMESTAMP_TOO_OLD; HMAC mismatch or undecodable hex,
\* INVALID_SIGNATURE; and it succeeds only if all four checks pass.
C18_FirstFailingCheck ==
    result.pc = "returned" =>
        result.code =
            (IF call.signature = <<>> THEN "MISSING_SIGNATURE_HEADER"
             ELSE IF BadTimestamp(call.signature) THEN "INVALID_TIMESTAMP"
             ELSE IF ~WellFormed(call.signature) THEN "INVALID_SIGNATURE_FORMAT"
             ELSE IF ~Fresh THEN "TIMESTAMP_TOO_OLD"
             ELSE IF ~SignatureMatches THEN "INVALID_SIGNATURE"
             ELSE "")

\* C19: for every secret, body and timestamp within tolerance and not in the
\* future, the header carrying the hex HMAC-SHA256 of "<timestamp>.<body>"
\* under that secret verifies, and the same header does not verify against a
\* different body.
C19_ValidSignatureVerifies ==
    result.pc = "returned" =>
        \A t \in Timestamps(call.now), b \in RequestBodies :
            (/\ call.signature = createValidSignature(call.secret, t, b)
             /\ 0 <= call.now - t
             /\ call.now - t <= Tolerance(call.options))
                => (result.code = "" <=> call.body = b)

C19_Witness ==
    /\ result.pc = "returned"
    /\ call.signature = createValidSignature(call.secret, call.now - 1, <<"a">>)
    /\ call.options = [isNil |-> FALSE, Tolerance |-> 1]
    /\ call.body = <<"a">>
    /\ result.code = ""

\* StreamEvents has returned the channels and the stream is to end: the
\* caller's context is cancelled or the connection has closed.
StreamEnds == spc.main = "returned" /\ (streamDone \/ conn = "failed")

\* The relay, which feeds both outputs, has returned.
StreamTerminated == spc.relay = "exited"

\* The worker is in processEventWithRetries after the handler has failed on the
\* last permitted attempt.
FinalAttemptFailed(w) ==
    /\ Len(w.trace) >= 2 * (options.MaxRetries + 1)
    /\ SubSeq(w.trace, 1, 2 * (options.MaxRetries + 1)) = Failures(options.MaxRetries + 1)

\* The calls the worker has made since that failure.
AfterFinalAttempt(w) == SubSeq(w.trace, 2 * (options.MaxRetries + 1) + 1, Len(w.trace))

\* The error callback is invoked with err, when there is a callback.
Reported(err) == handleError(<<>>, err)

\* Worker i, back in runProcessor, takes its next step: it pulls, unless it
\* reads a cancelled context from s.ctx.
ContinuesWithPull(i) ==
    workers'[i] # workers[i] =>
        \/ workers'[i].pc = "PullEvent"
        \/ \E c \in ReadCtx(workers[i].run) : Done(c)

\* C21: when the handler fails on the final permitted attempt the worker first
\* reports the terminal failure to the error callback and only then
\* acknowledges the event; a failed acknowledge is reported as a second error;
\* either way the worker goes on to its next pull.
C21_TerminalFailureThenAck ==
    /\ [](\A i \in DOMAIN workers :
            LET w == workers[i]
            IN  FinalAttemptFailed(w) =>
                  \/ /\ w.pc = "Ack"
                     /\ AfterFinalAttempt(w) = Reported("ErrorHandler:attempts") \o <<"Ack">>
                  \/ /\ w.pc = "select"
                     /\ AfterFinalAttempt(w) =
                           Reported("ErrorHandler:attempts") \o <<"Ack", "Ack:nil">>
                  \/ /\ w.pc = "select"
                     /\ AfterFinalAttempt(w) =
                           Reported("ErrorHandler:attempts") \o <<"Ack", "Ack:error">>
                              \o Reported("ErrorHandler:ack"))
    /\ [][\A i \in DOMAIN workers :
            (FinalAttemptFailed(workers[i]) /\ workers[i].pc = "select")
                => ContinuesWithPull(i)]_vars

C21_Witness ==
    \E i \in DOMAIN workers :
        /\ options.ErrorHandler /\ options.MaxRetries = MaxRetriesIn
        /\ workers[i].pc = "select"
        /\ workers[i].trace =
              Failures(MaxRetriesIn + 1)
                 \o <<"ErrorHandler:attempts", "Ack", "Ack:error", "ErrorHandler:ack">>

\* The acknowledge that followed a successful handler call has failed.
AckFailedAfterSuccess(w) ==
    Count(w.trace, "Handler:nil") > 0 /\ Count(w.trace, "Ack:error") > 0

\* C22: when the handler succeeds and the acknowledge fails, the failure is
\* reported exactly once to the error callback, the handler is not invoked
\* again for the event, and the worker carries on with its next pull.
C22_AckFailureReportedOnce ==
    /\ [](\A i \in DOMAIN workers :
            LET w == workers[i]
            IN  AckFailedAfterSuccess(w) =>
                  /\ w.pc = "select"
                  /\ w.trace = Failures(w.attempt)
                        \o <<"Handler", "Handler:nil", "Ack", "Ack:error">>
                        \o Reported("ErrorHandler:ack")
                  /\ options.ErrorHandler => Count(w.trace, "ErrorHandler:ack") = 1)
    /\ [][\A i \in DOMAIN workers :
            AckFailedAfterSuccess(workers[i]) => ContinuesWithPull(i)]_vars

C22_Witness ==
    \E i \in DOMAIN workers :
        /\ options.ErrorHandler
        /\ workers[i].pc = "select"
        /\ workers[i].trace =
              <<"Handler", "Handler:nil", "Ack", "Ack:error", "ErrorHandler:ack">>

\* Worker i, waiting out the poll interval, takes its next step: the wait
\* returns and the worker is back in runProcessor.
WaitsThenLoops(i) ==
    workers'[i] # workers[i] =>
        /\ workers'[i].pc = "select"
        /\ workers'[i].pulled = workers[i].pulled
        /\ workers'[i].trace = workers[i].trace

\* C23: when a pull fails the worker reports exactly one error to the error
\* callback, waits one poll interval and then pulls again; it does not
\* terminate, invokes no handler and acknowledges nothing.
C23_PullFailureReportedThenWait ==
    /\ [](\A i \in DOMAIN workers :
            LET w == workers[i]
            IN  w.pulled = "error" =>
                  /\ w.pc \in {"sleep", "select"}
                  /\ w.pc = "select" => w.slept = options.PollInterval
                  /\ w.trace = Reported("ErrorHandler:pull")
                  /\ w.event = NoEvent
                  /\ w.pc = "sleep" => w.timer = options.PollInterval)
    /\ [][\A i \in DOMAIN workers :
            workers[i].pulled = "error" =>
                IF workers[i].pc = "sleep" THEN WaitsThenLoops(i)
                ELSE ContinuesWithPull(i)]_vars

C23_Witness ==
    \E i \in DOMAIN workers :
        /\ options.PollInterval # options.RetryDelay
        /\ workers[i].pulled = "error"
        /\ workers[i].pc = "select"
        /\ workers[i].trace = <<"ErrorHandler:pull">>

\* C24: when a pull returns no event the worker invokes neither the handler
\* nor acknowledge nor the error callback, and waits one poll interval before
\* its next pull.
C24_NoEventWaitsPollInterval ==
    /\ [](\A i \in DOMAIN workers :
            LET w == workers[i]
            IN  w.pulled = "nil" =>
                  /\ w.pc \in {"sleep", "select"}
                  /\ w.pc = "select" => w.slept = options.PollInterval
                  /\ w.trace = <<>>
                  /\ w.event = NoEvent
                  /\ w.pc = "sleep" => w.timer = options.PollInterval)
    /\ [][\A i \in DOMAIN workers :
            workers[i].pulled = "nil" =>
                IF workers[i].pc = "sleep" THEN WaitsThenLoops(i)
                ELSE ContinuesWithPull(i)]_vars

C24_Witness ==
    \E i \in DOMAIN workers :
        /\ options.PollInterval # options.RetryDelay
        /\ workers[i].pulled = "nil"
        /\ workers[i].pc = "select"
        /\ ~workers[i].interrupted

\* The worker is in s.sleep, waiting out a poll interval or a retry delay.
Waiting(w) == w.pc \in {"sleep", "sleepRetry"}

\* The cancellation signal has fired during the worker's wait: the wait is
\* about to return on it, or has just done so.
Interrupted(w) ==
    \/ Waiting(w) /\ w.live /\ Done(w.watch)
    \/ w.pc = "select" /\ w.interrupted

\* C25: a worker waiting out a poll interval or a retry delay returns from the
\* wait once the cancellation signal fires, whether or not the timer expires,
\* and after such an interrupted wait it exits without pulling or invoking the
\* handler again.
C25_WaitInterruptedByCancel ==
    /\ \A i \in 1..MaxWorkers :
          (i \in DOMAIN workers /\ Waiting(workers[i]) /\ Done(workers[i].watch))
              ~> (i \in DOMAIN workers /\ ~Waiting(workers[i]))
    /\ [][\A i \in DOMAIN workers :
            Interrupted(workers[i]) => ~BeginsWork(i)]_vars

\* The workers that have a handler invocation in progress for registration r.
InHandler(r) == {i \in DOMAIN workers : workers[i].sub = r /\ workers[i].pc = "Handler"}

\* C26: a worker pulls its next event only when the processing of the previous
\* one has finished, so at most P handler invocations are in progress for a
\* registration that runs with P processors.
C26_OneEventInFlightPerWorker ==
    /\ [][\A i \in DOMAIN workers :
            (workers'[i].pc = "PullEvent" /\ workers[i].pc # "PullEvent")
                => workers[i].pc = "select"]_vars
    /\ [](\A r \in Registrations :
            Cardinality(InHandler(r)) <=
                options.PerSubscriptionProcessors * Count(subscriptions, r))

\* C27: once Start has succeeded the registration list is immutable: a later
\* Subscribe, with the engine running or stopped, leaves the list returned by
\* GetSubscriptions unchanged.
C27_RegistryImmutableAfterStart ==
    [][ctx # 0 => GetSubscriptionsResult' = GetSubscriptionsResult]_vars

\* The workers spawned by run r.
WorkersOf(r) == {i \in DOMAIN workers : workers[i].run = r}

\* C28: the workers of a run observe the one cancellation signal derived at
\* that run's Start: once the run's Stop has triggered it every worker of the
\* run eventually exits, also when Start is called again during or after that
\* Stop, and the live workers never number more than P x R.
C28_OneSignalPerRun ==
    /\ \A r \in 1..MaxRuns :
          (r \in cancelled) ~> (\A i \in WorkersOf(r) : ~Active(workers[i]))
    /\ [](Cardinality(ActiveWorkers)
            <= options.PerSubscriptionProcessors * Len(subscriptions))

\* The handler's latest attempt has failed with attempts remaining, and the
\* cancellation signal of the worker's run has fired since, during the retry
\* delay.
CancelledBetweenAttempts(w) ==
    w.pc = "sleepRetry" /\ w.watch = w.run /\ w.live /\ Done(w.run)

\* C29: if cancellation fires while an event is being processed and the
\* handler's latest attempt failed with attempts remaining, the worker abandons
\* the event: no further handler invocation, no acknowledge, no terminal
\* failure reported.
C29_AbandonOnCancel ==
    [][\A i \in DOMAIN workers :
        (CancelledBetweenAttempts(workers[i]) /\ workers'[i] # workers[i]) =>
            /\ workers'[i].pc = "select"
            /\ workers'[i].trace = workers[i].trace]_vars

\* C30: for every event a worker pulls at most one acknowledge call is issued,
\* and only after the handler has returned success or the final permitted
\* attempt has failed; no handler attempt follows an acknowledge.
C30_AtMostOneAck ==
    \A i \in DOMAIN workers :
        LET t == workers[i].trace
        IN  /\ Count(t, "Ack") <= 1
            /\ \A k \in DOMAIN t :
                  t[k] = "Ack" =>
                     /\ \/ Count(SubSeq(t, 1, k), "Handler:nil") = 1
                        \/ Count(SubSeq(t, 1, k), "Handler:error") = options.MaxRetries + 1
                     /\ \A m \in DOMAIN t : t[m] = "Handler" => m < k

C30_Witness ==
    \E i \in DOMAIN workers :
        /\ options.MaxRetries = MaxRetriesIn
        /\ workers[i].trace =
              Failures(MaxRetriesIn + 1) \o <<"ErrorHandler:attempts", "Ack", "Ack:nil">>

\* What event.Ack addresses: the topic, subscription and id held by the event.
AckTarget(e) == <<e.topic, e.subscription, e.ID>>

\* What the service delivered to the registration reg.
Delivered(reg) == <<reg.Topic, reg.Subscription, EventIDs[reg.Topic]>>

\* C31: a registration's handler is only invoked with events pulled from that
\* registration's own topic and subscription, and every acknowledge is
\* addressed to the topic, subscription and event id the event was pulled from.
C31_EventsStayWithRegistration ==
    \A i \in DOMAIN workers :
        LET w == workers[i]
        IN  /\ w.pc = "Handler" =>
                 /\ w.event.topic = w.sub.Topic
                 /\ w.event.subscription = w.sub.Subscription
                 /\ w.event.ID = EventIDs[w.sub.Topic]
            /\ w.pc = "Ack" => AckTarget(w.event) = Delivered(w.sub)

C31_Witness ==
    \E i, j \in DOMAIN workers :
        /\ workers[i].sub.Topic = "topic1" /\ workers[i].pc = "Ack"
        /\ workers[j].sub.Topic = "topic2" /\ workers[j].pc = "Handler"

\* The worker's last request (pull or acknowledge) failed only because the
\* context it was made with had been cancelled: the service answered no error.
FailedByCancellation(w) == w.failure = "ctx"

\* C32: stopping the engine produces no error report: when the service answers
\* no error and every handler succeeds the error callback is not invoked, also
\* while Stop or the cancellation of the Start context shuts the workers down
\* with a pull or an acknowledge in flight.
C32_StopReportsNoError ==
    \A i \in DOMAIN workers :
        FailedByCancellation(workers[i]) =>
            /\ Count(workers[i].trace, "ErrorHandler:pull") = 0
            /\ Count(workers[i].trace, "ErrorHandler:ack") = 0

\* Worker i is inside a Stop call made by its handler or its error callback.
InStopOnWorker(i) == i \in DOMAIN workers /\ workers[i].pc = "Wait"

\* C33: a call to Stop made from inside a handler or the error callback, on a
\* worker's own goroutine, eventually returns, and the engine then comes to
\* have no active worker.
C33_StopFromWorkerReturns ==
    \A i \in 1..MaxWorkers :
        /\ InStopOnWorker(i) ~> ~InStopOnWorker(i)
        /\ InStopOnWorker(i) ~> (ActiveWorkers = {})

\* C34: verification does not depend on the order of the header's elements, on
\* whitespace around an element, or on extra elements with unrecognized keys:
\* a header and its variant give the same result for the same secret, body and
\* time.
C34_HeaderVariantsAgree ==
    (call.fn = "VerifySignature" /\ result.pc = "returned" /\ "variant" \in DOMAIN call)
        => result.variantCode = result.code

\* The header has more than one `t` element or more than one `v1` element.
Duplicated(header) ==
    \/ Cardinality(ElementsWithKey(header, <<"t">>)) > 1
    \/ Cardinality(ElementsWithKey(header, <<"v", "1">>)) > 1

\* C35: a header is well-formed only with exactly one `t` and exactly one `v1`
\* element: one with more than one `t` or more than one `v1` is rejected with
\* INVALID_SIGNATURE_FORMAT, not verified against one of the duplicates.
C35_DuplicateElementsRejected ==
    (call.fn = "VerifySignature" /\ result.pc = "returned" /\ Duplicated(call.signature))
        => result.code = "INVALID_SIGNATURE_FORMAT"

\* The codes of a verification error.
VerificationCodes ==
    {"MISSING_SIGNATURE_HEADER", "INVALID_SIGNATURE_FORMAT", "INVALID_TIMESTAMP",
     "TIMESTAMP_TOO_OLD", "INVALID_SIGNATURE"}

\* C36: every error returned by VerifySignature, VerifyPushSubscriptionSignature
\* or SailhouseClient.VerifyPushSubscription, for any secret, header, body and
\* options, is a typed verification error with one of the five codes.
C36_ErrorsAreTypedCodes ==
    (result.pc = "returned" /\ "err" \in DOMAIN result /\ ~result.err.isNil)
        => (result.err.typed /\ result.err.code \in VerificationCodes)

\* StreamEvents is in the send of a connection failure: DialContext or
\* WriteJSON has returned an error.
ConnectFailed == spc.main = "errs<-"

\* C37: once connecting to the stream endpoint or sending the auth handshake
\* has failed, StreamEvents returns its two channels to the caller, and the
\* caller, who can receive only from channels it has been handed, then
\* receives the failure on the error channel.
C37_ConnectFailureDelivered ==
    ConnectFailed ~> (spc.main = "returned" /\ Len(received) > 0)

\* The reader goroutine has returned from its function.
ReaderTerminated == spc.reader = "exited"

\* C38: no goroutine of StreamEvents sends on a closed channel, and once the
\* relay has closed the message and error channels, on cancellation or after
\* a decode error, the reader makes no further send and terminates.
C38_NoSendOnClosedChannel ==
    /\ [](spc.reader # "panic")
    /\ [][(closed["messages"] /\ closed["errs"]) =>
              (spc'.reader \in {"messages<-", "errs<-"} => spc'.reader = spc.reader)]_vars
    /\ StreamTerminated ~> ReaderTerminated

\* SailhouseClient.Subscribe's goroutine is running or has run.
Polling == call.fn = "Subscribe" /\ poller.pc # "none"

\* The k-th call of the goroutine is a pull that failed.
PullFailedAt(k) == k \in DOMAIN poller.trace /\ poller.trace[k] = "PullEvent:error"

\* C39: in the background Subscribe helper every pull error is passed to
\* OnError; with ExitOnErr set the goroutine then terminates without pulling
\* again; without it the goroutine waits the polling interval and pulls again,
\* unless the context is cancelled first, in which case it terminates; the
\* helper itself never acknowledges an event.
C39_BackgroundSubscribe ==
    /\ [](Polling =>
            /\ \A k \in DOMAIN poller.trace :
                  PullFailedAt(k) =>
                     /\ (~call.opts.isNil /\ call.opts.OnError) =>
                           (k < Len(poller.trace) /\ poller.trace[k + 1] = "OnError")
                     /\ exitOnErr(call.opts) =>
                           (poller.pc = "exited" /\ k >= Len(poller.trace) - 1)
            /\ Count(poller.trace, "Ack") = 0)
    /\ [][Polling =>
            /\ poller.pc = "exited" => poller' = poller
            /\ (poller'.pulls # poller.pulls /\ PullFailedAt(Len(poller.trace) + 1)') =>
                  poller'.pc = IF exitOnErr(call.opts) THEN "exited" ELSE "select"
            /\ (poller.pc = "select" /\ poller' # poller) =>
                  /\ poller'.trace = poller.trace
                  /\ poller.timer = pollingInterval
                  /\ IF doneChan THEN poller'.pc = "exited"
                     ELSE poller'.pc = "PullEvent" /\ poller'.slept = pollingInterval]_vars

C39_Witness ==
    /\ Polling
    /\ ~call.opts.isNil /\ call.opts.OnError /\ ~call.opts.ExitOnErr
    /\ poller.trace = <<"PullEvent:error", "OnError", "PullEvent:event", "handler",
                        "handler:Ack", "PullEvent:error", "OnError">>
    /\ poller.pc = "exited"

\* The requests of a Wait in which nothing fails.
AllRequests(topic, events, id) ==
    <<CreateRequest(topic)>>
        \o [k \in 1..Len(events) |-> PublishRequest(events[k], id)]
        \o <<MarkRequest(id)>>

\* The error of the k-th request of the returned Wait: the create request
\* first, then one publish for each event.
RequestError(k) ==
    IF k = 1 THEN CreateError(call.service.create)
    ELSE IF k <= Len(call.events) + 1 THEN Publish(call.service.publish[k - 1])
    ELSE MarkError(call.service.mark)

\* C40: Wait issues its requests in the order create, one publish for each
\* event in list order tagged with the instance id the create returned, then
\* mark in progress; when the create or a publish fails Wait returns that
\* error and issues no further request.
C40_WaitCallOrder ==
    (call.fn = "Wait" /\ result.pc = "returned") =>
        LET requests == result.ret.requests
            expected == AllRequests(call.topic, call.events, call.service.create.Body.id)
        IN  /\ Len(requests) \in 1..Len(expected)
            /\ requests = SubSeq(expected, 1, Len(requests))
            /\ \A k \in 1..Len(requests) :
                  RequestError(k) # NoError =>
                      (k = Len(requests) /\ result.ret.err = RequestError(k))
            /\ (\A k \in 1..Len(requests) : RequestError(k) = NoError) =>
                  (requests = expected /\ result.ret.err = NoError)

C40_Witness ==
    /\ call.fn = "Wait" /\ result.pc = "returned"
    /\ Len(call.events) = MaxEvents
    /\ call.events[1] # call.events[2]
    /\ Publish(call.service.publish[1]) = NoError
    /\ Publish(call.service.publish[2]) # NoError
    /\ MarkError(call.service.mark) = NoError
    /\ Len(result.ret.requests) = 3
    /\ result.ret.err = Publish(call.service.publish[2])

\* C20: when the caller's context is cancelled or the connection closes, the
\* stream opened by StreamEvents terminates, and both of its outputs, the event
\* channel and the error channel, are closed.
C20_StreamClosesOutputs ==
    /\ StreamEnds ~> StreamTerminated
    /\ [](StreamTerminated => (closed["events"] /\ closed["errs"]))

====
